---- MODULE Spec2Model ----
(***************************************************************************)
(* Contextify source-graph builder (src/src/graph_builder.py) and graph    *)
(* query layer (src/src/api/graph_api.py).                                 *)
(*                                                                         *)
(* Strings are sequences of one-character strings, so that the string      *)
(* operations of the code (strip, replace, split, substring containment,   *)
(* endswith, lower, sorted) are computed, not assumed.                     *)
(***************************************************************************)
EXTENDS Integers, Sequences, FiniteSets, TLC

(***************************************************************************)
(* Bounds of the model.                                                    *)
(***************************************************************************)
\* files of one source tree
MaxFiles == 3
\* builds run one after another by one GraphBuilder
MaxRuns == 2
\* edges of a graph.pkl that did not come from a build of the model
MaxEdges == 3
\* lines of a tags.json that did not come from a build of the model
MaxTags == 3
\* largest depth asked of get_neighbors
MaxHops == 3
\* GraphAPI calls made on one instance
MaxCalls == 2
MaxEvents == 3
MaxAnalyses == 2
MaxRetries == 2

\* Python's None where a tag is expected, where a string (a sequence of
\* characters) is expected, and where a graph is expected
None == "None"
NoneStr == <<"None">>
NoGraph == [unset |-> TRUE]

(***************************************************************************)
(* String operations of Python, on sequences of characters.                *)
(***************************************************************************)
\* s[i:] and s[:i] with 0-based i
Drop(s, i) == SubSeq(s, i + 1, Len(s))
Take(s, i) == SubSeq(s, 1, i)

\* sub in s
Contains(sub, s) ==
    \E i \in 0..(Len(s) - Len(sub)) : SubSeq(s, i + 1, i + Len(sub)) = sub

\* s.endswith(suf)
EndsWith(s, suf) ==
    /\ Len(suf) <= Len(s)
    /\ SubSeq(s, Len(s) - Len(suf) + 1, Len(s)) = suf

\* s.replace(a, b) for single characters a, b
ReplaceChar(s, a, b) == [i \in 1..Len(s) |-> IF s[i] = a THEN b ELSE s[i]]

\* s.rfind(c): 0-based index of the last c, -1 when there is none
RFind(s, c) ==
    IF \E i \in 1..Len(s) : s[i] = c
    THEN (CHOOSE i \in 1..Len(s) : s[i] = c /\ \A j \in (i + 1)..Len(s) : s[j] # c) - 1
    ELSE -1

\* s.split(c)[-1]
LastSegment(s, c) == Drop(s, RFind(s, c) + 1)

\* s.strip(chars): drop leading and trailing characters that are in cs
Strip(s, cs) ==
    LET keep == {i \in 1..Len(s) : s[i] \notin cs}
    IN  IF keep = {} THEN <<>>
        ELSE LET lo == CHOOSE i \in keep : \A j \in keep : i <= j
                 hi == CHOOSE i \in keep : \A j \in keep : j <= i
             IN  SubSeq(s, lo, hi)

\* sep.join(parts)
RECURSIVE Join(_, _)
Join(sep, parts) ==
    IF parts = <<>> THEN <<>>
    ELSE IF Len(parts) = 1 THEN parts[1]
    ELSE parts[1] \o sep \o Join(sep, Tail(parts))

UpperChars == {"A", "B", "C", "D", "F", "O", "P", "Y", "Z"}

LowerChar(c) ==
    CASE c = "A" -> "a"
      [] c = "B" -> "b"
      [] c = "C" -> "c"
      [] c = "D" -> "d"
      [] c = "F" -> "f"
      [] c = "O" -> "o"
      [] c = "P" -> "p"
      [] c = "Y" -> "y"
      [] c = "Z" -> "z"
      [] OTHER -> c

\* s.lower()
Lower(s) == [i \in 1..Len(s) |-> LowerChar(s[i])]

\* ord(c) of the characters the model uses
Ord(c) ==
    CASE c = "." -> 46
      [] c = "/" -> 47
      [] c = "A" -> 65
      [] c = "B" -> 66
      [] c = "C" -> 67
      [] c = "D" -> 68
      [] c = "F" -> 70
      [] c = "O" -> 79
      [] c = "Z" -> 90
      [] c = "\\" -> 92
      [] c = "_" -> 95
      [] c = "a" -> 97
      [] c = "b" -> 98
      [] c = "c" -> 99
      [] c = "d" -> 100
      [] c = "e" -> 101
      [] c = "f" -> 102
      [] c = "g" -> 103
      [] c = "i" -> 105
      [] c = "j" -> 106
      [] c = "m" -> 109
      [] c = "n" -> 110
      [] c = "o" -> 111
      [] c = "p" -> 112
      [] c = "q" -> 113
      [] c = "r" -> 114
      [] c = "s" -> 115
      [] c = "t" -> 116
      [] c = "u" -> 117
      [] c = "x" -> 120
      [] c = "y" -> 121
      [] OTHER -> 0

\* s <= t in Python's string order (lexicographic by code point)
RECURSIVE StrLeq(_, _)
StrLeq(s, t) ==
    IF s = <<>> THEN TRUE
    ELSE IF t = <<>> THEN FALSE
    ELSE IF s[1] = t[1] THEN StrLeq(Tail(s), Tail(t))
    ELSE Ord(s[1]) < Ord(t[1])

\* s.split(c)
RECURSIVE Split(_, _)
Split(s, c) ==
    IF \E i \in 1..Len(s) : s[i] = c
    THEN LET k == CHOOSE i \in 1..Len(s) : s[i] = c /\ \A j \in 1..(i - 1) : s[j] # c
         IN  <<Take(s, k - 1)>> \o Split(Drop(s, k), c)
    ELSE <<s>>

(***************************************************************************)
(* Paths (pathlib.PurePosixPath on the string of a path).                  *)
(***************************************************************************)
\* the directory the builders of the model are given, unless said otherwise
RepoPath == <<"/", "r">>

\* GraphBuilder.repo_path: the directory this builder was given
VARIABLE repo_path

\* str(root / rel)
AbsPathIn(root, rel) == root \o <<"/">> \o rel

\* str(self.repo_path / rel)
AbsPath(rel) == AbsPathIn(repo_path, rel)

\* Path.parts of an absolute path: the root "/" and the segments
Parts(abs) == <<<<"/">>>> \o Split(Drop(abs, 1), "/")

\* Path.name: the final component
FileName(p) == LastSegment(p, "/")

\* Path.suffix: from the last "." of the name, unless it leads or ends the name
Suffix(p) ==
    LET name == FileName(p)
        i == RFind(name, ".")
    IN  IF 0 < i /\ i < Len(name) - 1 THEN Drop(name, i) ELSE <<>>

\* Path.stem: the name without its suffix
Stem(p) == Take(FileName(p), Len(FileName(p)) - Len(Suffix(p)))

\* str(Path.with_suffix("")): the path without its suffix
WithoutSuffix(p) == Take(p, Len(p) - Len(Suffix(p)))

\* str(rel).replace("\\", "/")
ToPosix(p) == ReplaceChar(p, "\\", "/")

(***************************************************************************)
(* Language table and patterns.  The model keeps the rows of the tables    *)
(* for the two languages its trees use: python (syntax-tree extraction)    *)
(* and javascript (line-oriented extraction).                              *)
(***************************************************************************)
\* LANGUAGE_EXTENSIONS
LANGUAGE_EXTENSIONS ==
    (<<".", "p", "y">> :> "python") @@ (<<".", "j", "s">> :> "javascript")

\* GraphBuilder._get_language
GetLanguage(p) ==
    IF Lower(Suffix(p)) \in DOMAIN LANGUAGE_EXTENSIONS
    THEN LANGUAGE_EXTENSIONS[Lower(Suffix(p))]
    ELSE "unknown"

\* skip_dirs of _find_source_files (the names the model's trees can hold)
SkipDirs == {<<"b", "i", "n">>, <<"o", "b", "j">>, <<".", "g", "i", "t">>}

(***************************************************************************)
(* A source line is kept in the shape the patterns and the parser see:     *)
(*   kind   what the stripped line is                                      *)
(*     python:     class  "class N:"        def   "def N(...):"            *)
(*                 asyncdef "async def N(...):"                            *)
(*                 import "import T"        from  "from T import x"        *)
(*                 other  another statement bad   text that does not parse *)
(*     javascript: class, function "function N(", arrow "const N = () =>", *)
(*                 constfn "const N = function", import_from               *)
(*                 "import x from 'T'", import_bare "import 'T'",          *)
(*                 require "require('T')", other                           *)
(*   name   N or T                                                         *)
(*   parent the line (1-based) of the statement whose body holds this      *)
(*          line, 0 at module level                                        *)
(***************************************************************************)
Ln(kind, name, parent) == [kind |-> kind, name |-> name, parent |-> parent]

\* DEFINITION_PATTERNS[language], in dictionary order: (category, the line
\* kinds the pattern matches once the line is stripped)
DEFINITION_PATTERNS(language) ==
    CASE language = "python" ->
            << <<"class", {"class"}>>, <<"function", {"def", "asyncdef"}>> >>
      [] language = "javascript" ->
            << <<"class", {"class"}>>, <<"function", {"function"}>>,
               <<"const_func", {"arrow"}>>, <<"const_func2", {"constfn"}>> >>
      [] OTHER -> <<>>

\* IMPORT_PATTERNS[language]: the line kinds each pattern captures a target of
IMPORT_PATTERNS(language) ==
    CASE language = "python" -> << {"import"}, {"from"} >>
      [] language = "javascript" -> << {"import_from"}, {"import_bare"}, {"require"} >>
      [] OTHER -> <<>>

\* category.split("_")[0]
CategoryHead(category) ==
    CASE category = "const_func" -> "const"
      [] category = "const_func2" -> "const"
      [] OTHER -> category

\* the sequences over S without repetition that enumerate S
Perms(S) ==
    {f \in [1..Cardinality(S) -> S] : \A i, j \in 1..Cardinality(S) : f[i] = f[j] => i = j}

\* the elements of a sequence
Range(s) == {s[i] : i \in 1..Len(s)}

(***************************************************************************)
(* networkx.DiGraph: the nodes in insertion order, each node's attribute   *)
(* dictionary, and each node's successors in insertion order.              *)
(***************************************************************************)
\* the attribute dictionary of a node that add_edge created
NoAttrs ==
    [category |-> None, kind |-> None, file |-> NoneStr, language |-> None,
     line |-> <<>>, info |-> NoneStr]

\* nx.DiGraph()
EmptyGraph == [order |-> <<>>, attrs |-> <<>>, succ |-> <<>>, pred |-> <<>>]

\* n in graph
HasNode(g, n) == n \in DOMAIN g.attrs

\* mutant: add_node of an existing name puts a fresh node in its place
GraphAddNode_Fresh(g, n, a) ==
    IF n \in DOMAIN g.attrs
    THEN [order |-> g.order,
          attrs |-> [g.attrs EXCEPT ![n] = a],
          succ  |-> [m \in DOMAIN g.succ |->
                       IF m = n THEN <<>> ELSE SelectSeq(g.succ[m], LAMBDA x : x # n)],
          pred  |-> [m \in DOMAIN g.pred |->
                       IF m = n THEN <<>> ELSE SelectSeq(g.pred[m], LAMBDA x : x # n)]]
    ELSE [order |-> Append(g.order, n),
          attrs |-> g.attrs @@ (n :> a),
          succ  |-> g.succ @@ (n :> <<>>),
          pred  |-> g.pred @@ (n :> <<>>)]

\* graph.add_node(n, **a): a new node is appended; an existing node keeps its
\* place and its edges, and its attributes are updated with a (every caller
\* passes all six keys, so the update replaces the dictionary)
GraphAddNode(g, n, a) ==
    IF HasNode(g, n)
    THEN [g EXCEPT !.attrs = [@ EXCEPT ![n] = a]]
    ELSE [order |-> Append(g.order, n),
          attrs |-> g.attrs @@ (n :> a),
          succ  |-> g.succ @@ (n :> <<>>),
          pred  |-> g.pred @@ (n :> <<>>)]

\* what add_edge does to an endpoint: a missing one is created without attributes
GraphTouch(g, n) == IF HasNode(g, n) THEN g ELSE GraphAddNode(g, n, NoAttrs)

\* graph.add_edge(u, v)
GraphAddEdge(g, u, v) ==
    LET g2 == GraphTouch(GraphTouch(g, u), v)
    IN  IF v \in Range(g2.succ[u])
        THEN g2
        ELSE [g2 EXCEPT !.succ = [@ EXCEPT ![u] = Append(@, v)],
                        !.pred = [@ EXCEPT ![v] = Append(@, u)]]

\* graph.nodes and graph.edges as sets
NodeSet(g) == DOMAIN g.attrs
EdgeSet(g) == UNION {{<<u, v>> : v \in Range(g.succ[u])} : u \in DOMAIN g.succ}

\* graph.neighbors(n) and graph.predecessors(n)
Successors(g, n) == g.succ[n]
Predecessors(g, n) == g.pred[n]

\* list(graph.edges()): node by node in insertion order, each node's
\* successors in insertion order
RECURSIVE EdgesFrom(_, _)
EdgesFrom(g, nodes) ==
    IF nodes = <<>> THEN <<>>
    ELSE [i \in 1..Len(g.succ[nodes[1]]) |-> <<nodes[1], g.succ[nodes[1]][i]>>]
         \o EdgesFrom(g, Tail(nodes))

EdgeList(g) == EdgesFrom(g, g.order)

(***************************************************************************)
(* Definition extraction.                                                  *)
(* A file of the tree is [path, readable, lines]: its path relative to the *)
(* repository (str(file_path.relative_to(repo_path))), whether read_text   *)
(* succeeds, and code.splitlines().                                        *)
(***************************************************************************)
\* the arguments of one GraphBuilder._add_node call
Call(name, category, rel_path, start_line, end_line, language, parent, info) ==
    [name |-> name, category |-> category, rel_path |-> rel_path,
     start_line |-> start_line, end_line |-> end_line, language |-> language,
     parent |-> parent, info |-> info]

\* a CodeNode
CodeNode(name, kind, category, file, rel_file, start_line, end_line, language, info) ==
    [name |-> name, kind |-> kind, category |-> category, file |-> file,
     rel_file |-> rel_file, start_line |-> start_line, end_line |-> end_line,
     language |-> language, info |-> info]

\* ast.parse(code) raises SyntaxError
SyntaxError(lines) == \E i \in 1..Len(lines) : lines[i].kind = "bad"

\* nesting depth of a statement in the syntax tree (0 in the module body)
RECURSIVE Depth(_, _)
Depth(lines, i) ==
    IF lines[i].parent = 0 THEN 0 ELSE 1 + Depth(lines, lines[i].parent)

\* a is the statement i or encloses it
RECURSIVE Encloses(_, _, _)
Encloses(lines, a, i) ==
    \/ a = i
    \/ lines[i].parent # 0 /\ Encloses(lines, a, lines[i].parent)

\* node.lineno and node.end_lineno
LineNo(lines, i) == i
EndLineNo(lines, i) ==
    CHOOSE j \in i..Len(lines) :
        /\ Encloses(lines, i, j)
        /\ \A k \in (j + 1)..Len(lines) : ~Encloses(lines, i, k)

\* node.body restricted to the statements of the given kinds, in order
Body(lines, i, kinds) ==
    SelectSeq([j \in 1..Len(lines) |-> j],
              LAMBDA j : lines[j].parent = i /\ lines[j].kind \in kinds)

\* ast.walk(tree) restricted to statements: breadth first, so by depth and,
\* within one depth, in source order
RECURSIVE WalkFrom(_, _)
WalkFrom(lines, d) ==
    IF d >= Len(lines) THEN <<>>
    ELSE SelectSeq([j \in 1..Len(lines) |-> j], LAMBDA j : Depth(lines, j) = d)
         \o WalkFrom(lines, d + 1)

AstWalk(lines) == WalkFrom(lines, 0)

\* the _add_node calls of _parse_python_file for one class: the class, then
\* one method per function directly in its body
ClassCalls(lines, i, rel_path, file_node_name) ==
    LET members == Body(lines, i, {"def"})
        methods == Body(lines, i, {"def", "asyncdef"})
    IN  <<Call(lines[i].name, "class", rel_path, LineNo(lines, i), EndLineNo(lines, i),
               "python", file_node_name,
               Join(<<",", " ">>, [k \in 1..Len(members) |-> lines[members[k]].name]))>>
        \o [k \in 1..Len(methods) |->
               Call(lines[i].name \o <<".">> \o lines[methods[k]].name, "method", rel_path,
                    LineNo(lines, methods[k]), EndLineNo(lines, methods[k]),
                    "python", lines[i].name, <<>>)]

\* mutant: no function is taken for a member of a class
InSomeClassBody_Never(lines, i) == FALSE

\* "Only top-level functions": the function is in the body list of some class
InSomeClassBody(lines, i) ==
    \E n \in 1..Len(lines) : lines[n].kind = "class" /\ lines[i].parent = n

\* the _add_node calls of the loop over ast.walk(tree), in order
RECURSIVE WalkCalls(_, _, _, _)
WalkCalls(lines, todo, rel_path, file_node_name) ==
    IF todo = <<>> THEN <<>>
    ELSE LET i == todo[1]
             here ==
                 IF lines[i].kind = "class"
                 THEN ClassCalls(lines, i, rel_path, file_node_name)
                 ELSE IF lines[i].kind \in {"def", "asyncdef"}
                 THEN IF InSomeClassBody(lines, i) THEN <<>>
                      ELSE <<Call(lines[i].name, "function", rel_path, LineNo(lines, i),
                                  EndLineNo(lines, i), "python", file_node_name, <<>>)>>
                 ELSE <<>>
         IN  here \o WalkCalls(lines, Tail(todo), rel_path, file_node_name)

\* the first (category, pattern) of the language that matches the line, or None
MatchDefinition(language, line) ==
    LET pats == DEFINITION_PATTERNS(language)
        hits == {k \in 1..Len(pats) : line.kind \in pats[k][2]}
    IN  IF hits = {} THEN None
        ELSE pats[CHOOSE k \in hits : \A h \in hits : k <= h][1]

\* norm_category
NormCategory(category) ==
    IF CategoryHead(category) \in {"const", "method"} THEN "function"
    ELSE CategoryHead(category)

\* GraphBuilder._parse_with_regex: its _add_node calls, one line at a time
RECURSIVE RegexCallsFrom(_, _, _, _, _)
RegexCallsFrom(language, lines, line_num, rel_path, file_node_name) ==
    IF line_num > Len(lines) THEN <<>>
    ELSE LET category == MatchDefinition(language, lines[line_num])
             here ==
                 IF category = None THEN <<>>
                 ELSE <<Call(lines[line_num].name, NormCategory(category), rel_path,
                             line_num, line_num, language, file_node_name, <<>>)>>
         IN  here \o RegexCallsFrom(language, lines, line_num + 1, rel_path, file_node_name)

ParseWithRegex(language, lines, rel_path, file_node_name) ==
    RegexCallsFrom(language, lines, 1, rel_path, file_node_name)

\* mutant: a file that does not parse gives no definition
ParsePythonFile_NoFallback(lines, rel_path, file_node_name) ==
    IF SyntaxError(lines) THEN <<>>
    ELSE WalkCalls(lines, AstWalk(lines), rel_path, file_node_name)

\* GraphBuilder._parse_python_file: its _add_node calls
ParsePythonFile(lines, rel_path, file_node_name) ==
    IF SyntaxError(lines)
    THEN ParseWithRegex("python", lines, rel_path, file_node_name)
    ELSE WalkCalls(lines, AstWalk(lines), rel_path, file_node_name)

\* the _add_node calls _parse_file makes for a file, after its file node
DefinitionCalls(f) ==
    IF GetLanguage(f.path) = "python"
    THEN ParsePythonFile(f.lines, f.path, ToPosix(f.path))
    ELSE ParseWithRegex(GetLanguage(f.path), f.lines, f.path, ToPosix(f.path))

\* the file node of _parse_file: its attributes and its CodeNode
FileAttrs(f) ==
    [category |-> "file", kind |-> "def", file |-> f.path,
     language |-> GetLanguage(f.path), line |-> <<1, Len(f.lines)>>, info |-> <<>>]

FileCodeNode(f) ==
    CodeNode(ToPosix(f.path), "def", "file", AbsPath(f.path), f.path, 1, Len(f.lines),
             GetLanguage(f.path), <<>>)

\* GraphBuilder._add_node on the graph: the node, then the edge from its parent
AddNodeGraph(g, c) ==
    LET g2 == GraphAddNode(g, c.name,
                  [category |-> c.category, kind |-> "def", file |-> c.rel_path,
                   language |-> c.language, line |-> <<c.start_line, c.end_line>>,
                   info |-> c.info])
    IN  IF c.parent # <<>> /\ HasNode(g2, c.parent)
        THEN GraphAddEdge(g2, c.parent, c.name)
        ELSE g2

\* GraphBuilder._add_node on the record list
AddNodeRecord(c) ==
    CodeNode(c.name, "def", c.category, AbsPath(c.rel_path), c.rel_path,
             c.start_line, c.end_line, c.language, c.info)

(***************************************************************************)
(* Source scanner and file index.                                          *)
(***************************************************************************)
\* the test of _find_source_files on one regular file
IsSourceFile(path) ==
    /\ ~\E skip \in SkipDirs : skip \in Range(Parts(AbsPath(path)))
    /\ Lower(Suffix(path)) \in DOMAIN LANGUAGE_EXTENSIONS

\* GraphBuilder._find_source_files: walk is the order in which rglob yields
\* the regular files of the tree
FindSourceFiles(walk) == SelectSeq(walk, IsSourceFile)

\* d[k] = v on a dict kept as a sequence of <<key, value>>: a new key is
\* appended, an existing key keeps its place and takes the new value
DictPut(d, k, v) ==
    IF \E i \in 1..Len(d) : d[i][1] = k
    THEN [i \in 1..Len(d) |-> IF d[i][1] = k THEN <<k, v>> ELSE d[i]]
    ELSE Append(d, <<k, v>>)

\* the four entries _build_file_map adds for one file
FileMapPut(d, f) ==
    DictPut(DictPut(DictPut(DictPut(d, f, f), WithoutSuffix(f), f), Stem(f), f),
            ToPosix(f), f)

\* GraphBuilder._build_file_map
RECURSIVE BuildFileMapFrom(_, _)
BuildFileMapFrom(d, files) ==
    IF files = <<>> THEN d
    ELSE BuildFileMapFrom(FileMapPut(d, files[1]), Tail(files))

BuildFileMap(files) == BuildFileMapFrom(<<>>, files)

(***************************************************************************)
(* Import resolution.                                                      *)
(***************************************************************************)
\* re.findall of each import pattern on one stripped line, pattern by pattern
RECURSIVE LineImports(_, _, _)
LineImports(pats, k, line) ==
    IF k > Len(pats) THEN <<>>
    ELSE (IF line.kind \in pats[k] THEN <<line.name>> ELSE <<>>)
         \o LineImports(pats, k + 1, line)

\* the import targets of a file, in the order _build_import_edges meets them
RECURSIVE ImportsFrom(_, _, _)
ImportsFrom(pats, lines, n) ==
    IF n > Len(lines) THEN <<>>
    ELSE LineImports(pats, 1, lines[n]) \o ImportsFrom(pats, lines, n + 1)

ImportOccurrences(f) == ImportsFrom(IMPORT_PATTERNS(GetLanguage(f.path)), f.lines, 1)

\* import_path.strip("./").replace("\\", "/")
CleanImportPath(import_path) == ToPosix(Strip(import_path, {".", "/"}))

\* mutant: the last segments are tried before the whole target
Candidates_SegmentsFirst(import_path) ==
    <<LastSegment(import_path, "."), LastSegment(import_path, "/"), import_path,
      ReplaceChar(import_path, ".", "/")>>

\* candidates of _add_import_edge
Candidates(import_path) ==
    << import_path,
       ReplaceChar(import_path, ".", "/"),
       LastSegment(import_path, "."),
       LastSegment(import_path, "/") >>

\* mutant: an empty candidate matches no key
KeyMatches_NonEmpty(candidate, key) ==
    candidate # <<>> /\ (Contains(candidate, key) \/ EndsWith(key, candidate))

\* candidate in key or key.endswith(candidate)
KeyMatches(candidate, key) == Contains(candidate, key) \/ EndsWith(key, candidate)

\* mutant: a candidate that matches no key takes the first entry
FirstKeyMatch_OrFirst(candidate, file_map) ==
    LET hits == {i \in 1..Len(file_map) : KeyMatches(candidate, file_map[i][1])}
    IN  IF file_map = <<>> THEN NoneStr
        ELSE IF hits = {} THEN file_map[1][2]
        ELSE file_map[CHOOSE i \in hits : \A h \in hits : i <= h][2]

\* the file of the first entry of file_map whose key the candidate matches
FirstKeyMatch(candidate, file_map) ==
    LET hits == {i \in 1..Len(file_map) : KeyMatches(candidate, file_map[i][1])}
    IN  IF hits = {} THEN NoneStr
        ELSE file_map[CHOOSE i \in hits : \A h \in hits : i <= h][2]

\* the file the two loops of _add_import_edge stop at, or NoneStr
RECURSIVE ResolveFrom(_, _, _)
ResolveFrom(cands, k, file_map) ==
    IF k > Len(cands) THEN NoneStr
    ELSE IF FirstKeyMatch(cands[k], file_map) # NoneStr
    THEN FirstKeyMatch(cands[k], file_map)
    ELSE ResolveFrom(cands, k + 1, file_map)

ResolveImport(import_path, file_map) ==
    ResolveFrom(Candidates(CleanImportPath(import_path)), 1, file_map)

\* mutant: the guard without its two membership tests
ImportEdgeAllowed_NoNodeCheck(g, from_file, to_file) == from_file # to_file

\* mutant: the guard without its test of the target
ImportEdgeAllowed_NoTargetCheck(g, from_file, to_file) ==
    from_file # to_file /\ HasNode(g, from_file)

\* mutant: the guard without its test that the two files differ
ImportEdgeAllowed_SelfToo(g, from_file, to_file) ==
    HasNode(g, from_file) /\ HasNode(g, to_file)

\* the guard of graph.add_edge in _add_import_edge
ImportEdgeAllowed(g, from_file, to_file) ==
    from_file # to_file /\ HasNode(g, from_file) /\ HasNode(g, to_file)

\* mutant: when the guard rejects the file the loops stop at, the later
\* index entries are tried
AddImportEdge_TriesOn(g, from_file, import_path, file_map) ==
    LET path == ResolveImport(import_path, file_map)
        later == {i \in 1..Len(file_map) :
                    /\ KeyMatches(CleanImportPath(import_path), file_map[i][1])
                    /\ ImportEdgeAllowed(g, from_file, ToPosix(file_map[i][2]))}
    IN  IF path = NoneStr THEN g
        ELSE IF ImportEdgeAllowed(g, from_file, ToPosix(path))
        THEN GraphAddEdge(g, from_file, ToPosix(path))
        ELSE IF later # {}
        THEN GraphAddEdge(g, from_file,
                          ToPosix(file_map[CHOOSE i \in later : \A h \in later : i <= h][2]))
        ELSE g

\* GraphBuilder._add_import_edge on the graph
AddImportEdge(g, from_file, import_path, file_map) ==
    LET path == ResolveImport(import_path, file_map)
    IN  IF path = NoneStr THEN g
        ELSE IF ImportEdgeAllowed(g, from_file, ToPosix(path))
        THEN GraphAddEdge(g, from_file, ToPosix(path))
        ELSE g

(***************************************************************************)
(* Graph query layer, GraphAPI (src/src/api/graph_api.py).                 *)
(* A tag is one line of tags.json: [fname, rel_fname, line, name, kind,    *)
(* category, language, info].                                              *)
(***************************************************************************)
\* get_node's answer when the name is not in the index
NoInfo == [none |-> TRUE]

\* GraphAPI._tag_to_node_info (and the same conversion in get_node, get_nodes)
TagToNodeInfo(tag) ==
    [id |-> tag.name, name |-> tag.name, category |-> tag.category, kind |-> tag.kind,
     file |-> tag.rel_fname, line |-> tag.line, info |-> tag.info]

\* mutant: every record takes the entry of its name
IndexPut_LastWins(index, tag) == (tag.name :> tag) @@ index

\* one round of the loop of _build_node_index
IndexPut(index, tag) ==
    IF tag.name \notin DOMAIN index THEN index @@ (tag.name :> tag)
    ELSE IF tag.kind = "def" THEN [index EXCEPT ![tag.name] = tag]
    ELSE index

\* GraphAPI._build_node_index
RECURSIVE BuildNodeIndexFrom(_, _)
BuildNodeIndexFrom(index, tags) ==
    IF tags = <<>> THEN index
    ELSE BuildNodeIndexFrom(IndexPut(index, tags[1]), Tail(tags))

BuildNodeIndex(tags) == BuildNodeIndexFrom(<<>>, tags)

\* GraphAPI.get_node
GetNodeOf(index, name) ==
    IF name \in DOMAIN index THEN TagToNodeInfo(index[name]) ELSE NoInfo

\* GraphAPI.get_nodes; a filter of None filters nothing
RECURSIVE GetNodesOf(_, _, _)
GetNodesOf(tags, kind, category) ==
    IF tags = <<>> THEN <<>>
    ELSE LET tag == tags[1]
             rest == GetNodesOf(Tail(tags), kind, category)
         IN  IF kind # None /\ tag.kind # kind THEN rest
             ELSE IF category # None /\ tag.category # category THEN rest
             ELSE <<TagToNodeInfo(tag)>> \o rest

\* GraphAPI.get_definitions
GetDefinitionsOf(tags) == GetNodesOf(tags, "def", None)

\* mutant: the containment test without lower-casing
SearchHit_CaseSensitive(name, query, exact) ==
    IF exact THEN name = query ELSE Contains(query, name)

\* the test of the loop of GraphAPI.search on one tag
SearchHit(name, query, exact) ==
    IF exact THEN name = query ELSE Contains(Lower(query), Lower(name))

\* GraphAPI.search
RECURSIVE SearchOf(_, _, _)
SearchOf(tags, query, exact) ==
    IF tags = <<>> THEN <<>>
    ELSE (IF SearchHit(tags[1].name, query, exact) THEN <<TagToNodeInfo(tags[1])>> ELSE <<>>)
         \o SearchOf(Tail(tags), query, exact)

\* "not self.graph": no graph loaded, or a graph without nodes (len(graph) = 0)
GraphFalsy(g) == g = NoGraph \/ Len(g.order) = 0

\* mutant: the traversal stops one level early
Expand_OneLess(level, depth) == level < depth - 1

\* whether the loop of get_neighbors goes on from a node popped at this level
Expand(level, depth) == level < depth

\* the while loop of get_neighbors: queue holds <<node, level>>
RECURSIVE Bfs(_, _, _, _)
Bfs(g, depth, queue, visited) ==
    IF queue = <<>> THEN visited
    ELSE LET node == queue[1][1]
             level == queue[1][2]
         IN  IF node \in visited THEN Bfs(g, depth, Tail(queue), visited)
             ELSE LET seen == visited \cup {node}
                      new == IF Expand(level, depth) /\ HasNode(g, node)
                             THEN SelectSeq(Successors(g, node), LAMBDA n : n \notin seen)
                             ELSE <<>>
                  IN  Bfs(g, depth,
                          Tail(queue) \o [i \in 1..Len(new) |-> <<new[i], level + 1>>],
                          seen)

\* the set get_neighbors makes its list of when depth is not 1
MultiHop(g, name, depth) == Bfs(g, depth, <<<<name, 0>>>>, {}) \ {name}

\* the nodes to_vis_format starts from
VisAllNodes(g, tags, files_only) ==
    IF files_only
    THEN LET ids == SelectSeq(g.order, LAMBDA n : g.attrs[n].category = "file")
         IN  [i \in 1..Len(ids) |->
                [id |-> ids[i], name |-> ids[i], category |-> "file",
                 kind |-> g.attrs[ids[i]].kind, file |-> g.attrs[ids[i]].file,
                 line |-> g.attrs[ids[i]].line, info |-> g.attrs[ids[i]].info]]
    ELSE GetDefinitionsOf(tags)

\* nodes of to_vis_format: one entry per name, the first one
RECURSIVE VisNodesFrom(_, _)
VisNodesFrom(all_nodes, node_map) ==
    IF all_nodes = <<>> THEN <<>>
    ELSE LET node == all_nodes[1]
         IN  IF node.name \in node_map THEN VisNodesFrom(Tail(all_nodes), node_map)
             ELSE <<[id |-> node.name, name |-> node.name, category |-> node.category,
                     group |-> node.category, file |-> node.file]>>
                  \o VisNodesFrom(Tail(all_nodes), node_map \cup {node.name})

\* mutant: the pair kept as it comes, not sorted
EdgePair_Ordered(source, target) == <<source, target>>

\* tuple(sorted([source, target]))
EdgePair(source, target) ==
    IF StrLeq(source, target) THEN <<source, target>> ELSE <<target, source>>

\* mutant: one exported endpoint is enough
BothExported_Either(node_map, source, target) == source \in node_map \/ target \in node_map

\* the test "edge.source in node_map and edge.target in node_map"
BothExported(node_map, source, target) == source \in node_map /\ target \in node_map

\* links of to_vis_format
RECURSIVE VisLinksFrom(_, _, _)
VisLinksFrom(edges, node_map, seen_edges) ==
    IF edges = <<>> THEN <<>>
    ELSE LET source == edges[1][1]
             target == edges[1][2]
         IN  IF BothExported(node_map, source, target)
                /\ EdgePair(source, target) \notin seen_edges
             THEN <<[source |-> source, target |-> target]>>
                  \o VisLinksFrom(Tail(edges), node_map,
                                  seen_edges \cup {EdgePair(source, target)})
             ELSE VisLinksFrom(Tail(edges), node_map, seen_edges)

\* GraphAPI.to_vis_format on a loaded graph
ToVisFormatOf(g, tags, files_only) ==
    LET nodes_out == VisNodesFrom(VisAllNodes(g, tags, files_only), {})
    IN  [nodes |-> nodes_out,
         links |-> VisLinksFrom(EdgeList(g), {nodes_out[i].id : i \in 1..Len(nodes_out)}, {})]

\* mutant: every definition is kept
FirstOfName_Always(seen_nodes, name) == TRUE

\* the test "node.name not in seen_nodes" of to_json
FirstOfName(seen_nodes, name) == name \notin seen_nodes

\* unique_nodes of to_json
RECURSIVE UniqueNodesFrom(_, _)
UniqueNodesFrom(definitions, seen_nodes) ==
    IF definitions = <<>> THEN <<>>
    ELSE LET node == definitions[1]
         IN  IF FirstOfName(seen_nodes, node.name)
             THEN <<node>> \o UniqueNodesFrom(Tail(definitions), seen_nodes \cup {node.name})
             ELSE UniqueNodesFrom(Tail(definitions), seen_nodes)

\* sorted(files) for a set of strings
RECURSIVE SortedStrings(_)
SortedStrings(S) ==
    IF S = {} THEN <<>>
    ELSE LET least == CHOOSE x \in S : \A y \in S : StrLeq(x, y)
         IN  <<least>> \o SortedStrings(S \ {least})

\* GraphAPI.get_files
GetFilesOf(tags) == SortedStrings({tags[i].rel_fname : i \in 1..Len(tags)})

\* GraphAPI.get_edges on a loaded graph
GetEdgesOf(g) ==
    LET edges == EdgeList(g)
    IN  [i \in 1..Len(edges) |-> [source |-> edges[i][1], target |-> edges[i][2]]]

\* GraphAPI.to_json on a loaded graph
ToJsonOf(g, tags) ==
    LET definitions == GetDefinitionsOf(tags)
    IN  [nodes |-> UniqueNodesFrom(definitions, {}),
         edges |-> GetEdgesOf(g),
         files |-> GetFilesOf(tags),
         stats |-> [total_nodes |-> Len(g.order), total_edges |-> Len(EdgeList(g)),
                    definitions |-> Len(definitions), files |-> Len(GetFilesOf(tags))]]

(***************************************************************************)
(* Persistence: graph.pkl holds the pickled graph (pickle gives back the   *)
(* graph it was given, dictionaries in their order); tags.json holds one   *)
(* line per record, the JSON text of a dictionary.                         *)
(***************************************************************************)
\* the characters of the JSON text of a string, between its quotes
RECURSIVE JsonEscape(_)
JsonEscape(str) ==
    IF str = <<>> THEN <<>>
    ELSE (IF str[1] \in {"\"", "\\"} THEN <<"\\", str[1]>> ELSE <<str[1]>>)
         \o JsonEscape(Tail(str))

\* mutant: the text is taken as it is
JsonUnescape_AsIs(text) == text

\* the string a JSON text between quotes stands for
RECURSIVE JsonUnescape(_)
JsonUnescape(text) ==
    IF text = <<>> THEN <<>>
    ELSE IF text[1] = "\\" /\ Len(text) >= 2
    THEN <<text[2]>> \o JsonUnescape(Drop(text, 2))
    ELSE <<text[1]>> \o JsonUnescape(Tail(text))

\* the dictionary save writes for a CodeNode
TagOf(node) ==
    [fname |-> node.file, rel_fname |-> node.rel_file,
     line |-> <<node.start_line, node.end_line>>, name |-> node.name, kind |-> node.kind,
     category |-> node.category, language |-> node.language, info |-> node.info]

\* json.dumps of that dictionary: one line of tags.json
JsonDumps(tag) ==
    [fname |-> JsonEscape(tag.fname), rel_fname |-> JsonEscape(tag.rel_fname),
     line |-> tag.line, name |-> JsonEscape(tag.name), kind |-> tag.kind,
     category |-> tag.category, language |-> tag.language, info |-> JsonEscape(tag.info)]

\* json.loads of a line of tags.json
JsonLoads(text) ==
    [fname |-> JsonUnescape(text.fname), rel_fname |-> JsonUnescape(text.rel_fname),
     line |-> text.line, name |-> JsonUnescape(text.name), kind |-> text.kind,
     category |-> text.category, language |-> text.language,
     info |-> JsonUnescape(text.info)]

\* a line of tags.json with nothing but white space
BlankLine == [blank |-> TRUE]

\* the lines save writes to tags.json
TagsFile(records) == [i \in 1..Len(records) |-> JsonDumps(TagOf(records[i]))]

\* the tags load reads from tags.json: blank lines are skipped
ReadTags(lines) ==
    LET kept == SelectSeq(lines, LAMBDA line : line # BlankLine)
    IN  [i \in 1..Len(kept) |-> JsonLoads(kept[i])]

\* GraphBuilder.save: what the output directory holds afterwards
Saved(g, records) ==
    [has_graph |-> TRUE, graph |-> g, has_tags |-> TRUE, tags |-> TagsFile(records)]

(***************************************************************************)
(* The source trees of the model: every set of at most MaxFiles files of   *)
(* the pool below.                                                         *)
(***************************************************************************)
File(path, readable, lines) == [path |-> path, readable |-> readable, lines |-> lines]

a_py == <<"a", ".", "p", "y">>
b_py == <<"b", ".", "p", "y">>
ba_py == <<"b", "a", ".", "p", "y">>
c_py == <<"c", ".", "p", "y">>
e_py == <<"e", ".", "p", "y">>
ua_py == <<"u", "a", ".", "p", "y">>
m_js == <<"m", ".", "j", "s">>
d_md == <<"d", ".", "m", "d">>
bin_x_js == <<"b", "i", "n", "/", "x", ".", "j", "s">>
s_a_py == <<"s", "/", "a", ".", "p", "y">>
q_a_py == <<"q", "\\", "a", ".", "p", "y">>
Foo == <<"F", "o", "o">>
bar == <<"b", "a", "r">>
Foo_bar == <<"F", "o", "o", ".", "b", "a", "r">>

\* a.py: class Foo with method bar
FileA == File(a_py, TRUE, <<Ln("class", Foo, 0), Ln("def", bar, 1)>>)
\* b.py: from a import Foo
FileB == File(b_py, TRUE, <<Ln("from", <<"a">>, 0)>>)
\* ba.py: a function f
FileBa == File(ba_py, TRUE, <<Ln("def", <<"f">>, 0)>>)
\* c.py: import b, then class a with method py
FileC == File(c_py, TRUE,
              <<Ln("import", <<"b">>, 0), Ln("class", <<"a">>, 0), Ln("def", <<"p", "y">>, 2)>>)
\* e.py: import s.a, class Foo with method bar, then a line that does not parse
FileE == File(e_py, TRUE,
              <<Ln("import", <<"s", ".", "a">>, 0), Ln("class", Foo, 0), Ln("def", bar, 2),
                Ln("bad", <<>>, 0)>>)
\* ua.py: a file that cannot be read
FileU == File(ua_py, FALSE, <<Ln("class", Foo, 0)>>)
\* m.js: import x from './a', class Foo, const f = () =>
FileM == File(m_js, TRUE,
              <<Ln("import_from", <<".", "/", "a">>, 0), Ln("class", Foo, 0),
                Ln("arrow", <<"f">>, 0)>>)
\* d.md: not a source file
FileD == File(d_md, TRUE, <<Ln("other", <<>>, 0)>>)
\* s/a.py: a file in a directory, with no definition: from . import x
FileS == File(s_a_py, TRUE, <<Ln("from", <<".">>, 0)>>)
\* bin/x.js: a source file in an excluded directory
FileX == File(bin_x_js, TRUE, <<Ln("function", <<"f">>, 0)>>)

\* a file named q\a.py (a backslash in its name), with a function f
FileQ == File(q_a_py, TRUE, <<Ln("def", <<"f">>, 0)>>)

FilePool == {FileA, FileB, FileBa, FileC, FileE, FileU, FileM, FileD, FileS, FileX}

Trees == {t \in SUBSET FilePool : Cardinality(t) <= MaxFiles}

\* g.py: class Foo with method bar that holds a function inner, and with
\* an async method baz; a function top that holds a function sub
FileG == File(<<"g", ".", "p", "y">>, TRUE,
              <<Ln("class", Foo, 0), Ln("def", bar, 1), Ln("def", <<"i", "n">>, 2),
                Ln("asyncdef", <<"b", "a", "z">>, 1), Ln("def", <<"t", "o", "p">>, 0),
                Ln("def", <<"s", "u", "b">>, 5)>>)
\* t.py: class Foo that holds a class In with method m, and an async
\* function run
FileT == File(<<"t", ".", "p", "y">>, TRUE,
              <<Ln("class", Foo, 0), Ln("class", <<"I", "n">>, 1), Ln("def", <<"m">>, 2),
                Ln("asyncdef", <<"r", "u", "n">>, 0)>>)

\* U.PY: an upper-case extension; sbin/f.py: a directory whose name holds
\* an excluded name; obj/bin.py: an excluded directory above a file whose
\* stem is an excluded name
FileUp == File(<<"U", ".", "P", "Y">>, TRUE, <<Ln("def", <<"f">>, 0)>>)
FileSbin == File(<<"s", "b", "i", "n", "/", "f", ".", "p", "y">>, TRUE, <<Ln("other", <<>>, 0)>>)
FileObj == File(<<"o", "b", "j", "/", "b", "i", "n", ".", "p", "y">>, TRUE,
                <<Ln("other", <<>>, 0)>>)
\* bin.py: a file whose stem is an excluded name
FileBin == File(<<"b", "i", "n", ".", "p", "y">>, TRUE, <<Ln("def", <<"f">>, 0)>>)

\* the trees and the roots the scanner is tried on
ScanPool == {FileB, FileBa, FileD, FileX, FileUp, FileSbin, FileObj, FileBin}

ScanTrees == {t \in SUBSET ScanPool : Cardinality(t) \in 1..2}

Roots == {RepoPath, <<"/", "b", "i", "n">>, <<"/", "o", "b", "j", "/", "r">>}

\* the trees whose Python files exercise the syntax-tree extraction
ParsePool == {FileA, FileBa, FileE, FileG, FileT}

ParseTrees == {t \in SUBSET ParsePool : Cardinality(t) \in 1..2}

\* the trees that are built and then saved
SavePool == {FileA, FileB, FileQ, FileS, FileD}

SaveTrees == {t \in SUBSET SavePool : Cardinality(t) <= MaxFiles}

(***************************************************************************)
(* State.                                                                  *)
(***************************************************************************)
VARIABLES
    tree,          \* the files under repo_path (the file system; never written)
    graph,         \* GraphBuilder.graph
    nodes,         \* GraphBuilder.nodes, the CodeNode list
    pc,            \* "idle" (constructed), "building" (inside build), "done"
    all_files,     \* all_files of build: the scanner's result, as relative paths
    file_map,      \* file_map of build
    fileIdx,       \* the file the loop over all_files in build is at
    pending,       \* the _add_node calls _parse_file still has to make for it
    impIdx,        \* the file the loop of _build_import_edges is at
    impFrom,       \* from_file of that loop
    impPending,    \* the import targets of that file still to resolve
    atImport,      \* history: the record list and the node attributes when
                   \* _add_import_edge was first called in this build
    lastImport,    \* history: the last _add_import_edge call of this build,
                   \* with the graph and the record list it started from
    outcome,       \* what the caller of the last build was told, and whether
                   \* that caller saved
    runs,          \* history: the builds started
    prev,          \* history: node names and edges of the build before this one
    disk,          \* the output directory: graph.pkl and tags.json
    persisted,     \* history: the graph and the record list of the builder at
                   \* the last save, and those of the save the last load read
    api_graph,     \* GraphAPI.graph
    api_tags,      \* GraphAPI.tags
    api_index,     \* GraphAPI._node_index
    qres,          \* the outcome of the last GraphAPI call
    ncalls,        \* history: the GraphAPI calls made
    sse,           \* the server's progress events of one repo and one open
                   \* stream of them (analysis_events[repo_name], event_generator)
    readers        \* the callers that share the loaded instance: for each its
                   \* position, its call, what it has read and what it was given

buildVars ==
    <<graph, nodes, pc, all_files, file_map, fileIdx, pending, impIdx, impFrom,
      impPending, atImport, lastImport, outcome, runs, prev>>

loadedVars == <<api_graph, api_tags, api_index, qres, ncalls, readers>>

diskVars == <<disk, persisted>>

apiVars == <<diskVars, loadedVars>>

vars == <<tree, repo_path, sse, buildVars, apiVars>>

\* no _add_import_edge call yet in this build
NotYet == [nodes |-> <<>>, attrs |-> <<>>, none |-> TRUE]
importStarted == atImport # NotYet

\* no _add_import_edge call yet in this build
NoImport == [none |-> TRUE]

\* no build has returned to its caller yet
NoOutcome == [entry |-> "none", err |-> "", saved |-> FALSE]

\* file_path.read_text(...) and the attributes of the file at a path
FileAt(path) == CHOOSE f \in tree : f.path = path

\* GraphBuilder.__init__
InitBuilder ==
    /\ graph = NoGraph
    /\ nodes = <<>>
    /\ pc = "idle"
    /\ all_files = <<>>
    /\ file_map = <<>>
    /\ fileIdx = 1
    /\ pending = <<>>
    /\ impIdx = 1
    /\ impFrom = NoneStr
    /\ impPending = <<>>
    /\ atImport = NotYet
    /\ lastImport = NoImport
    /\ outcome = NoOutcome
    /\ runs = 0
    /\ prev = [names |-> {}, edges |-> {}]

\* an output directory nothing was saved to
NoDisk == [has_graph |-> FALSE, graph |-> NoGraph, has_tags |-> FALSE, tags |-> <<>>]

\* nothing was saved, nothing saved was loaded
NoSaved == [none |-> TRUE]
NothingPersisted == [saved |-> NoSaved, loaded |-> NoSaved]

\* the server before any event of the repo and before any stream of them
NoStream ==
    [lists |-> <<>>, cur |-> 0, count |-> 0, emitted |-> <<>>, analyses |-> 0,
     stream |-> [pc |-> "closed", event_index |-> 0, retry_count |-> 0, events |-> 0,
                 out |-> <<>>]]

\* no GraphAPI call yet
NoCall == [op |-> "none"]

\* GraphAPI.__init__
\* the threads that call the shared GraphAPI instance
Readers == {1, 2}

\* a reader that has made no call
Idle == [pc |-> "idle"]

InitApi ==
    /\ api_graph = NoGraph
    /\ api_tags = <<>>
    /\ api_index = <<>>
    /\ qres = NoCall
    /\ ncalls = 0
    /\ readers = [r \in Readers |-> Idle]

Init ==
    /\ tree \in Trees
    /\ repo_path = RepoPath
    /\ InitBuilder
    /\ disk = NoDisk
    /\ persisted = NothingPersisted
    /\ InitApi
    /\ sse = NoStream

(***************************************************************************)
(* GraphBuilder.build, one step per node-add and edge-add operation.       *)
(***************************************************************************)
\* build up to the loop over all_files: the graph and the record list are
\* reset, the tree is scanned and the file index is built (build returns
\* before it builds the index when no file was found: the index is not used)
BuildStart ==
    /\ pc \in {"idle", "done"}
    /\ runs < MaxRuns
    /\ \E walk \in Perms({f.path : f \in tree}) :
         /\ all_files' = FindSourceFiles(walk)
         /\ file_map' = IF all_files' = <<>> THEN <<>> ELSE BuildFileMap(all_files')
    /\ pc' = "building"
    /\ graph' = EmptyGraph
    /\ nodes' = <<>>
    /\ fileIdx' = 1
    /\ pending' = <<>>
    /\ impIdx' = 1
    /\ impFrom' = NoneStr
    /\ impPending' = <<>>
    /\ atImport' = NotYet
    /\ lastImport' = NoImport
    /\ outcome' = NoOutcome
    /\ runs' = runs + 1
    /\ prev' = IF pc = "done"
               THEN [names |-> NodeSet(graph), edges |-> EdgeSet(graph)]
               ELSE prev
    /\ UNCHANGED <<tree, repo_path, sse, apiVars>>

\* _parse_file up to its dispatch: an unreadable file is skipped, otherwise
\* the file node and its CodeNode are added
ParseFile ==
    /\ pc = "building"
    /\ pending = <<>>
    /\ fileIdx <= Len(all_files)
    /\ LET f == FileAt(all_files[fileIdx])
       IN  IF ~f.readable
           THEN /\ fileIdx' = fileIdx + 1
                /\ UNCHANGED <<graph, nodes, pending>>
           ELSE /\ graph' = GraphAddNode(graph, ToPosix(f.path), FileAttrs(f))
                /\ nodes' = Append(nodes, FileCodeNode(f))
                /\ pending' = DefinitionCalls(f)
                /\ fileIdx' = IF pending' = <<>> THEN fileIdx + 1 ELSE fileIdx
    /\ UNCHANGED <<apiVars, tree, repo_path, sse, pc, all_files, file_map, impIdx, impFrom, impPending,
                   atImport, lastImport, outcome, runs, prev>>

\* one _add_node call of the extraction of the current file
AddNode ==
    /\ pc = "building"
    /\ pending # <<>>
    /\ graph' = AddNodeGraph(graph, Head(pending))
    /\ nodes' = Append(nodes, AddNodeRecord(Head(pending)))
    /\ pending' = Tail(pending)
    /\ fileIdx' = IF pending' = <<>> THEN fileIdx + 1 ELSE fileIdx
    /\ UNCHANGED <<apiVars, tree, repo_path, sse, pc, all_files, file_map, impIdx, impFrom, impPending,
                   atImport, lastImport, outcome, runs, prev>>

\* mutant: the imports of a file are resolved as soon as that file is parsed
ImportsMayStart_PerFile == impIdx < fileIdx /\ pending = <<>>

\* build calls _build_import_edges only after its loop over all_files
ImportsMayStart == fileIdx > Len(all_files) /\ pending = <<>>

\* _build_import_edges reads the next file and collects its import targets
ImportFile ==
    /\ pc = "building"
    /\ ImportsMayStart
    /\ impPending = <<>>
    /\ impIdx <= Len(all_files)
    /\ LET f == FileAt(all_files[impIdx])
       IN  IF ~f.readable
           THEN UNCHANGED <<impFrom, impPending>>
           ELSE /\ impFrom' = ToPosix(f.path)
                /\ impPending' = ImportOccurrences(f)
    /\ impIdx' = impIdx + 1
    /\ UNCHANGED <<apiVars, tree, repo_path, sse, graph, nodes, pc, all_files, file_map, fileIdx, pending,
                   atImport, lastImport, outcome, runs, prev>>

\* one _add_import_edge call
ImportEdge ==
    /\ pc = "building"
    /\ impPending # <<>>
    /\ graph' = AddImportEdge(graph, impFrom, Head(impPending), file_map)
    /\ impPending' = Tail(impPending)
    /\ atImport' = IF atImport = NotYet
                   THEN [nodes |-> nodes, attrs |-> graph.attrs]
                   ELSE atImport
    /\ lastImport' = [from_file |-> impFrom, import_path |-> Head(impPending),
                      graph |-> graph, nodes |-> nodes]
    /\ UNCHANGED <<apiVars, tree, repo_path, sse, nodes, pc, all_files, file_map, fileIdx, pending, impIdx,
                   impFrom, outcome, runs, prev>>

\* build has nothing left to do: both loops are over (at once when no
\* source file was found)
BuildOver ==
    /\ pc = "building"
    /\ fileIdx > Len(all_files) /\ pending = <<>>
    /\ impIdx > Len(all_files) /\ impPending = <<>>

\* return self.graph, to a caller that does nothing more
BuildReturn ==
    /\ BuildOver
    /\ pc' = "done"
    /\ outcome' = [entry |-> "build", err |-> "", saved |-> FALSE]
    /\ UNCHANGED <<apiVars, tree, repo_path, sse, graph, nodes, all_files, file_map, fileIdx, pending, impIdx,
                   impFrom, impPending, atImport, lastImport, runs, prev>>

Next ==
    \/ BuildStart
    \/ ParseFile
    \/ AddNode
    \/ ImportFile
    \/ ImportEdge
    \/ BuildReturn

Spec == Init /\ [][Next]_vars

(***************************************************************************)
(* The output directories the query layer is given in the model: a graph   *)
(* of at most MaxEdges edges over three nodes with a few tag lists, or a   *)
(* fixed graph with any list of at most MaxTags tags.                      *)
(***************************************************************************)
nA == <<"A">>
nB == <<"B">>
nC == <<"C">>
nZ == <<"Z">>
food == <<"f", "o", "o", "d">>

QNames == {nA, nB, nC}
TagNames == {Foo, food, bar}

\* the attributes the builder gives a node, for a graph of the model
QAttrs(name) ==
    [category |-> IF name \in {nA, nB, Foo, food} THEN "file" ELSE "class",
     kind |-> "def", file |-> name, language |-> "python", line |-> <<1, 1>>,
     info |-> <<>>]

RECURSIVE WithNodes(_, _)
WithNodes(g, names) ==
    IF names = <<>> THEN g
    ELSE WithNodes(GraphAddNode(g, names[1], QAttrs(names[1])), Tail(names))

RECURSIVE WithEdges(_, _)
WithEdges(g, edges) ==
    IF edges = <<>> THEN g
    ELSE WithEdges(GraphAddEdge(g, edges[1][1], edges[1][2]), Tail(edges))

\* the graph made by add_node for each name, then add_edge for each edge
MkGraph(names, edges) == WithEdges(WithNodes(EmptyGraph, names), edges)

\* the elements of a set, one after another
RECURSIVE SetToSeq(_)
SetToSeq(S) ==
    IF S = {} THEN <<>>
    ELSE LET x == CHOOSE y \in S : TRUE IN <<x>> \o SetToSeq(S \ {x})

QGraphs ==
    {MkGraph(names, SetToSeq(edges)) :
        names \in {<<>>, <<nA, nB, nC>>, <<nC, nB>>},
        edges \in {E \in SUBSET (QNames \X QNames) : Cardinality(E) <= MaxEdges}}

\* the tag at line pos of tags.json
MkTag(name, kind, category, pos) ==
    [fname |-> AbsPathIn(RepoPath, IF category = "file" THEN name ELSE a_py),
     rel_fname |-> IF category = "file" THEN name ELSE a_py,
     line |-> <<pos, pos>>, name |-> name, kind |-> kind, category |-> category,
     language |-> "python", info |-> <<>>]

QGraphTags ==
    { <<MkTag(nA, "def", "file", 1), MkTag(nB, "def", "file", 2), MkTag(nC, "def", "class", 3)>>,
      <<MkTag(nA, "def", "file", 1), MkTag(nC, "def", "class", 2), MkTag(nB, "ref", "file", 3),
        MkTag(nA, "def", "class", 4)>> }

QTagLists ==
    UNION {{[i \in 1..k |-> MkTag(c[i][1], c[i][2], QAttrs(c[i][1]).category, i)] :
               c \in [1..k -> TagNames \X {"def", "ref"}]} :
           k \in 0..MaxTags}

\* Foo <-> food -> bar -> Z, where Z was never added as a node
QFixedGraph ==
    MkGraph(<<Foo, food, bar>>,
            <<<<Foo, food>>, <<food, Foo>>, <<food, bar>>, <<bar, nZ>>>>)

\* an output directory whose tags.json holds these tags, and a blank line
\* at the end when the list is longer than MaxTags
Disk(has_graph, g, tags) ==
    [has_graph |-> has_graph, graph |-> g, has_tags |-> TRUE,
     tags |-> [i \in 1..Len(tags) |-> JsonDumps(tags[i])]
              \o (IF Len(tags) > MaxTags THEN <<BlankLine>> ELSE <<>>)]

QDisks ==
    {Disk(TRUE, g, tags) : g \in QGraphs, tags \in QGraphTags}
    \cup {Disk(TRUE, QFixedGraph, tags) : tags \in QTagLists}
    \cup {Disk(FALSE, NoGraph, tags) : tags \in QGraphTags}

InitQuery ==
    /\ tree = {}
    /\ repo_path = RepoPath
    /\ InitBuilder
    /\ disk \in QDisks
    /\ persisted = NothingPersisted
    /\ InitApi
    /\ sse = NoStream

(***************************************************************************)
(* GraphAPI operations.                                                    *)
(***************************************************************************)
\* the names, filters and queries the calls of the model pass
ArgNames ==
    {nZ} \cup {api_tags[i].name : i \in 1..Len(api_tags)}
         \cup (IF api_graph = NoGraph THEN {} ELSE NodeSet(api_graph))

SearchQueries == {<<"f", "o", "o">>, Foo, <<"O", "O">>, <<>>}

\* mutant: load does not look for graph.pkl first
GraphNotFound_Never(d) == FALSE

\* "not self.graph_path.exists()"
GraphNotFound(d) == ~d.has_graph

\* GraphAPI.load, by a caller that is not inside build (build does not write
\* the output directory: a load during a build reads what a load before it
\* reads)
Load ==
    /\ pc # "building"
    /\ ncalls < MaxCalls
    /\ ncalls' = ncalls + 1
    /\ IF GraphNotFound(disk)
       THEN /\ qres' = [op |-> "load", err |-> "FileNotFoundError"]
            /\ UNCHANGED <<api_graph, api_tags, api_index, persisted>>
       ELSE /\ api_graph' = disk.graph
            /\ api_tags' = IF disk.has_tags THEN ReadTags(disk.tags) ELSE <<>>
            /\ api_index' = BuildNodeIndex(api_tags')
            /\ qres' = [op |-> "load", err |-> ""]
            /\ persisted' = [persisted EXCEPT !.loaded = persisted.saved]
    /\ UNCHANGED <<tree, repo_path, sse, buildVars, disk, readers>>

\* GraphAPI.get_node
GetNode ==
    /\ ncalls < MaxCalls
    /\ ncalls' = ncalls + 1
    /\ \E name \in ArgNames :
         qres' = [op |-> "get_node", name |-> name, out |-> GetNodeOf(api_index, name)]
    /\ UNCHANGED <<tree, repo_path, sse, buildVars, diskVars, api_graph, api_tags, api_index, readers>>

\* GraphAPI.get_nodes
GetNodes ==
    /\ ncalls < MaxCalls
    /\ ncalls' = ncalls + 1
    /\ \E kind \in {None, "def", "ref"}, category \in {None, "file"} :
         qres' = [op |-> "get_nodes", kind |-> kind, category |-> category,
                  out |-> GetNodesOf(api_tags, kind, category)]
    /\ UNCHANGED <<tree, repo_path, sse, buildVars, diskVars, api_graph, api_tags, api_index, readers>>

\* GraphAPI.search
Search ==
    /\ ncalls < MaxCalls
    /\ ncalls' = ncalls + 1
    /\ \E query \in SearchQueries, exact \in BOOLEAN :
         qres' = [op |-> "search", query |-> query, exact |-> exact,
                  out |-> SearchOf(api_tags, query, exact)]
    /\ UNCHANGED <<tree, repo_path, sse, buildVars, diskVars, api_graph, api_tags, api_index, readers>>

\* GraphAPI.get_neighbors; list(visited) lists the set in an order the code
\* does not choose
GetNeighbors ==
    /\ ncalls < MaxCalls
    /\ ncalls' = ncalls + 1
    /\ \E name \in ArgNames, depth \in 1..MaxHops :
         IF GraphFalsy(api_graph)
         THEN qres' = [op |-> "get_neighbors", name |-> name, depth |-> depth,
                       err |-> "RuntimeError", out |-> <<>>]
         ELSE \E out \in (IF ~HasNode(api_graph, name) THEN {<<>>}
                          ELSE IF depth = 1 THEN {Successors(api_graph, name)}
                          ELSE Perms(MultiHop(api_graph, name, depth))) :
                qres' = [op |-> "get_neighbors", name |-> name, depth |-> depth,
                         err |-> "", out |-> out]
    /\ UNCHANGED <<tree, repo_path, sse, buildVars, diskVars, api_graph, api_tags, api_index, readers>>

\* GraphAPI.get_predecessors
GetPredecessors ==
    /\ ncalls < MaxCalls
    /\ ncalls' = ncalls + 1
    /\ \E name \in ArgNames :
         qres' = [op |-> "get_predecessors", name |-> name,
                  err |-> IF GraphFalsy(api_graph) THEN "RuntimeError" ELSE "",
                  out |-> IF GraphFalsy(api_graph) \/ ~HasNode(api_graph, name) THEN <<>>
                          ELSE Predecessors(api_graph, name)]
    /\ UNCHANGED <<tree, repo_path, sse, buildVars, diskVars, api_graph, api_tags, api_index, readers>>

\* GraphAPI.to_vis_format
ToVisFormat ==
    /\ ncalls < MaxCalls
    /\ ncalls' = ncalls + 1
    /\ \E files_only \in BOOLEAN :
         qres' = [op |-> "to_vis_format", files_only |-> files_only,
                  err |-> IF GraphFalsy(api_graph) THEN "RuntimeError" ELSE "",
                  out |-> IF GraphFalsy(api_graph) THEN [nodes |-> <<>>, links |-> <<>>]
                          ELSE ToVisFormatOf(api_graph, api_tags, files_only)]
    /\ UNCHANGED <<tree, repo_path, sse, buildVars, diskVars, api_graph, api_tags, api_index, readers>>

\* GraphAPI.to_json; get_edges raises when "not self.graph"
ToJson ==
    /\ ncalls < MaxCalls
    /\ ncalls' = ncalls + 1
    /\ qres' = [op |-> "to_json",
                err |-> IF GraphFalsy(api_graph) THEN "RuntimeError" ELSE "",
                out |-> IF GraphFalsy(api_graph)
                        THEN [nodes |-> <<>>, edges |-> <<>>, files |-> <<>>,
                              stats |-> [total_nodes |-> 0, total_edges |-> 0,
                                         definitions |-> 0, files |-> 0]]
                        ELSE ToJsonOf(api_graph, api_tags)]
    /\ UNCHANGED <<tree, repo_path, sse, buildVars, diskVars, api_graph, api_tags, api_index, readers>>

NextQuery ==
    \/ Load
    \/ GetNode
    \/ GetNodes
    \/ Search
    \/ GetNeighbors
    \/ GetPredecessors
    \/ ToVisFormat
    \/ ToJson

SpecQuery == InitQuery /\ [][NextQuery]_vars

(***************************************************************************)
(* Building, saving and loading.  The callers of build in the repository   *)
(* go on after it returns: ContextifyPipeline.analyze, the build_graph of  *)
(* analyze_local in the server, and the function build_graph.              *)
(***************************************************************************)
\* GraphBuilder.get_stats()["nodes"]
StatsNodes(g) == IF GraphFalsy(g) THEN 0 ELSE Len(g.order)

\* the _add_node calls and file node-adds of the build that has just run
RECURSIVE NodeAdds(_)
NodeAdds(files) ==
    IF files = {} THEN 0
    ELSE LET f == CHOOSE x \in files : TRUE
         IN  1 + Len(DefinitionCalls(f)) + NodeAdds(files \ {f})

\* what a save call starts from
SaveCall ==
    [graph |-> graph, nodes |-> nodes,
     adds |-> NodeAdds({FileAt(all_files[i]) :
                          i \in {j \in 1..Len(all_files) : FileAt(all_files[j]).readable}})]

\* GraphBuilder.save on a builder whose build has returned
Save ==
    /\ pc = "done"
    /\ disk' = Saved(graph, nodes)
    /\ persisted' = [persisted EXCEPT !.saved = SaveCall]
    /\ UNCHANGED <<tree, repo_path, sse, buildVars, loadedVars>>

\* ContextifyPipeline.analyze from the return of build on: it raises when
\* the graph has no node and saves otherwise
Analyze ==
    /\ BuildOver
    /\ pc' = "done"
    /\ IF StatsNodes(graph) = 0
       THEN /\ outcome' = [entry |-> "analyze", err |-> "No supported source files found",
                            saved |-> FALSE]
            /\ UNCHANGED diskVars
       ELSE /\ outcome' = [entry |-> "analyze", err |-> "", saved |-> TRUE]
            /\ disk' = Saved(graph, nodes)
            /\ persisted' = [persisted EXCEPT !.saved = SaveCall]
    /\ UNCHANGED <<tree, repo_path, sse, loadedVars, graph, nodes, all_files, file_map, fileIdx, pending,
                   impIdx, impFrom, impPending, atImport, lastImport, runs, prev>>

\* build_graph of analyze_local from the return of build on: it saves
AnalyzeLocal ==
    /\ BuildOver
    /\ pc' = "done"
    /\ outcome' = [entry |-> "analyze_local", err |-> "", saved |-> TRUE]
    /\ disk' = Saved(graph, nodes)
    /\ persisted' = [persisted EXCEPT !.saved = SaveCall]
    /\ UNCHANGED <<tree, repo_path, sse, loadedVars, graph, nodes, all_files, file_map, fileIdx, pending,
                   impIdx, impFrom, impPending, atImport, lastImport, runs, prev>>

\* the function build_graph, given an output directory, from the return of
\* build on: it saves
BuildGraph ==
    /\ BuildOver
    /\ pc' = "done"
    /\ outcome' = [entry |-> "build_graph", err |-> "", saved |-> TRUE]
    /\ disk' = Saved(graph, nodes)
    /\ persisted' = [persisted EXCEPT !.saved = SaveCall]
    /\ UNCHANGED <<tree, repo_path, sse, loadedVars, graph, nodes, all_files, file_map, fileIdx, pending,
                   impIdx, impFrom, impPending, atImport, lastImport, runs, prev>>

NextSave ==
    \/ Next
    \/ Save
    \/ Analyze
    \/ AnalyzeLocal
    \/ BuildGraph
    \/ Load

InitSave ==
    /\ tree \in SaveTrees
    /\ repo_path = RepoPath
    /\ InitBuilder
    /\ disk = NoDisk
    /\ persisted = NothingPersisted
    /\ InitApi
    /\ sse = NoStream

SpecSave == InitSave /\ [][NextSave]_vars

(***************************************************************************)
(* The build over trees of Python files with nested definitions.           *)
(***************************************************************************)
InitParse ==
    /\ tree \in ParseTrees
    /\ repo_path = RepoPath
    /\ InitBuilder
    /\ disk = NoDisk
    /\ persisted = NothingPersisted
    /\ InitApi
    /\ sse = NoStream

SpecParse == InitParse /\ [][Next]_vars

(***************************************************************************)
(* The build under several roots, over trees that try the scanner.         *)
(***************************************************************************)
InitScan ==
    /\ tree \in ScanTrees
    /\ repo_path \in Roots
    /\ InitBuilder
    /\ disk = NoDisk
    /\ persisted = NothingPersisted
    /\ InitApi
    /\ sse = NoStream

SpecScan == InitScan /\ [][Next]_vars

(***************************************************************************)
(* Properties of the builder.                                              *)
(***************************************************************************)
(* Concurrent readers of one loaded instance.  GraphAPI holds no lock: a   *)
(* call reads the attributes of the instance when it needs them.  to_json  *)
(* and to_vis_format read self.tags (get_definitions) and later self.graph *)
(* (get_edges); the other queries read one attribute.                      *)
(***************************************************************************)
\* mutant: a query that empties the record list it walked
SelfAfterQuery_Consumes(self) == [self EXCEPT !.tags = <<>>]

\* the attributes of the instance after a query: no statement of a query has
\* self.graph, self.tags or self._node_index on its left
SelfAfterQuery(self) == self

\* the calls of the readers, one call each
ReaderNames == {food, nZ}

ReaderCalls ==
    {[op |-> "get_node", name |-> n] : n \in ReaderNames}
    \cup {[op |-> "get_nodes", kind |-> k, category |-> None] : k \in {None, "def"}}
    \cup {[op |-> "search", query |-> q, exact |-> e] :
             q \in {<<"O", "O">>}, e \in BOOLEAN}
    \cup {[op |-> "get_neighbors", name |-> n, depth |-> d] :
             n \in ReaderNames, d \in {1, MaxHops}}
    \cup {[op |-> "get_predecessors", name |-> n] : n \in ReaderNames}
    \cup {[op |-> "to_json"]}
    \cup {[op |-> "to_vis_format", files_only |-> f] : f \in BOOLEAN}

\* the calls that read self.tags and then, in a later statement, self.graph
ReadsTagsFirst(call) ==
    call.op = "to_json" \/ (call.op = "to_vis_format" /\ ~call.files_only)

\* what a call may give back, from the attributes it read
QueryOuts(call, g, tags, index) ==
    CASE call.op = "get_node" ->
           {[err |-> "", out |-> GetNodeOf(index, call.name)]}
      [] call.op = "get_nodes" ->
           {[err |-> "", out |-> GetNodesOf(tags, call.kind, call.category)]}
      [] call.op = "search" ->
           {[err |-> "", out |-> SearchOf(tags, call.query, call.exact)]}
      [] call.op = "get_neighbors" ->
           IF GraphFalsy(g) THEN {[err |-> "RuntimeError", out |-> <<>>]}
           ELSE IF ~HasNode(g, call.name) THEN {[err |-> "", out |-> <<>>]}
           ELSE IF call.depth = 1 THEN {[err |-> "", out |-> Successors(g, call.name)]}
           ELSE {[err |-> "", out |-> o] : o \in Perms(MultiHop(g, call.name, call.depth))}
      [] call.op = "get_predecessors" ->
           IF GraphFalsy(g) THEN {[err |-> "RuntimeError", out |-> <<>>]}
           ELSE IF ~HasNode(g, call.name) THEN {[err |-> "", out |-> <<>>]}
           ELSE {[err |-> "", out |-> Predecessors(g, call.name)]}
      [] call.op = "to_json" ->
           IF GraphFalsy(g) THEN {[err |-> "RuntimeError", out |-> <<>>]}
           ELSE {[err |-> "", out |-> ToJsonOf(g, tags)]}
      [] call.op = "to_vis_format" ->
           IF GraphFalsy(g) THEN {[err |-> "RuntimeError", out |-> <<>>]}
           ELSE {[err |-> "", out |-> ToVisFormatOf(g, tags, call.files_only)]}

\* whether a reader is inside a call
InFlight(r) == readers[r].pc \in {"called", "read_tags"}

\* load, before the readers are given the instance
ReaderLoad ==
    /\ \A r \in Readers : readers[r].pc = "idle"
    /\ Load

\* the instance's attributes, put back after a query
PutSelf(self) ==
    /\ api_graph' = self.graph
    /\ api_tags' = self.tags
    /\ api_index' = self.index

\* a reader enters a query of the loaded instance
ReaderCall(r) ==
    /\ qres = [op |-> "load", err |-> ""]
    /\ readers[r].pc = "idle"
    /\ \E call \in ReaderCalls :
         readers' = [readers EXCEPT ![r] =
                        [pc |-> "called", call |-> call,
                         overlap |-> \E o \in Readers \ {r} : InFlight(o)]]
    /\ UNCHANGED <<tree, repo_path, sse, buildVars, diskVars, api_graph, api_tags, api_index, qres, ncalls>>

\* to_json, to_vis_format: "definitions = self.get_definitions()"
ReaderReadTags(r) ==
    /\ readers[r].pc = "called"
    /\ ReadsTagsFirst(readers[r].call)
    /\ readers' = [readers EXCEPT ![r] =
                      [pc |-> "read_tags", call |-> @.call, tags |-> api_tags,
                       overlap |-> @.overlap \/ \E o \in Readers \ {r} : InFlight(o)]]
    /\ UNCHANGED <<tree, repo_path, sse, buildVars, diskVars, api_graph, api_tags, api_index, qres, ncalls>>

\* the rest of the query, to its return
ReaderReturn(r) ==
    /\ \/ readers[r].pc = "called" /\ ~ReadsTagsFirst(readers[r].call)
       \/ readers[r].pc = "read_tags"
    /\ LET tags == IF readers[r].pc = "read_tags" THEN readers[r].tags ELSE api_tags
       IN  \E res \in QueryOuts(readers[r].call, api_graph, tags, api_index) :
             readers' = [readers EXCEPT ![r] =
                            [pc |-> "returned", call |-> @.call, res |-> res,
                             overlap |-> @.overlap \/ \E o \in Readers \ {r} : InFlight(o)]]
    /\ PutSelf(SelfAfterQuery([graph |-> api_graph, tags |-> api_tags, index |-> api_index]))
    /\ UNCHANGED <<tree, repo_path, sse, buildVars, diskVars, qres, ncalls>>

NextReaders ==
    \/ ReaderLoad
    \/ \E r \in Readers : ReaderCall(r)
    \/ \E r \in Readers : ReaderReadTags(r)
    \/ \E r \in Readers : ReaderReturn(r)

\* the output directories the readers' instance is loaded from
ReaderDisks ==
    {Disk(TRUE, QFixedGraph, tags) :
        tags \in {<<MkTag(Foo, "def", "class", 1), MkTag(food, "ref", "function", 2),
                    MkTag(Foo, "def", "function", 3)>>,
                  <<MkTag(bar, "ref", "function", 1), MkTag(food, "def", "function", 2),
                    MkTag(bar, "def", "function", 3)>>}}
    \cup {Disk(TRUE, EmptyGraph, <<MkTag(Foo, "def", "class", 1)>>)}

InitReaders ==
    /\ tree = {}
    /\ repo_path = RepoPath
    /\ InitBuilder
    /\ disk \in ReaderDisks
    /\ persisted = NothingPersisted
    /\ InitApi
    /\ sse = NoStream

SpecReaders == InitReaders /\ [][NextReaders]_vars

(***************************************************************************)
(* Progress events of one repository (src/src/api/server.py).              *)
(* analysis_events[repo_name] is a list object: sse.lists holds the list   *)
(* objects made so far and sse.cur the one the dictionary holds now (0     *)
(* when the repository is not a key).  The stream is one run of            *)
(* event_generator.  sse.count numbers the events emitted; sse.emitted is  *)
(* history: the events the list held when the stream was opened, then the  *)
(* events emitted since.                                                   *)
(***************************************************************************)
EventTypes == {"graph_building", "analysis_complete", "error"}

\* progress['data'].get('type') in ['analysis_complete', 'error']
Terminal(event) == event.type \in {"analysis_complete", "error"}

\* the client opens /rlm/stream/{repo_name}: the 'connected' event is sent
StreamOpen ==
    /\ sse.stream.pc = "closed"
    /\ sse' = [sse EXCEPT !.stream = [pc |-> "poll", event_index |-> 0, retry_count |-> 0,
                                      events |-> 0, out |-> <<>>],
                          !.emitted = IF sse.cur = 0 THEN <<>> ELSE sse.lists[sse.cur]]
    /\ UNCHANGED <<tree, repo_path, buildVars, apiVars>>

\* emit_progress(repo_name, data)
EmitProgress ==
    /\ sse.count < MaxEvents
    /\ \E type \in EventTypes :
         LET event == [type |-> type, n |-> sse.count + 1]
             lists == IF sse.cur = 0 THEN Append(sse.lists, <<>>) ELSE sse.lists
             cur == IF sse.cur = 0 THEN Len(lists) ELSE sse.cur
         IN  sse' = [sse EXCEPT !.lists = [lists EXCEPT ![cur] = Append(@, event)],
                                !.cur = cur,
                                !.count = @ + 1,
                                !.emitted = IF sse.stream.pc = "closed" THEN @
                                            ELSE Append(@, event)]
    /\ UNCHANGED <<tree, repo_path, buildVars, apiVars>>

\* analyze_full and analyze_local: "analysis_events[repo_name] = []"
StartAnalysis ==
    /\ sse.analyses < MaxAnalyses
    /\ sse' = [sse EXCEPT !.lists = Append(@, <<>>),
                          !.cur = Len(sse.lists) + 1,
                          !.analyses = @ + 1]
    /\ UNCHANGED <<tree, repo_path, buildVars, apiVars>>

\* event_generator at the head of its outer loop
StreamPoll ==
    /\ sse.stream.pc = "poll"
    /\ sse' = IF sse.stream.retry_count >= MaxRetries
              THEN [sse EXCEPT !.stream.pc = "timeout"]
              ELSE IF sse.cur = 0
              THEN [sse EXCEPT !.stream.pc = "sleep"]
              ELSE [sse EXCEPT !.stream.pc = "send", !.stream.events = sse.cur]
    /\ UNCHANGED <<tree, repo_path, buildVars, apiVars>>

\* one round of the inner loop of event_generator: the test, and the yield
\* of the next event of the list it holds
StreamSend ==
    /\ sse.stream.pc = "send"
    /\ LET events == sse.lists[sse.stream.events]
       IN  IF sse.stream.event_index < Len(events)
           THEN LET progress == events[sse.stream.event_index + 1]
                IN  sse' = [sse EXCEPT !.stream.event_index = @ + 1,
                                       !.stream.retry_count = 0,
                                       !.stream.out = Append(@, progress),
                                       !.stream.pc = IF Terminal(progress) THEN "ended"
                                                     ELSE "send"]
           ELSE sse' = [sse EXCEPT !.stream.pc = "sleep"]
    /\ UNCHANGED <<tree, repo_path, buildVars, apiVars>>

\* await asyncio.sleep(0.3); retry_count += 1
StreamSleep ==
    /\ sse.stream.pc = "sleep"
    /\ sse' = [sse EXCEPT !.stream.pc = "poll", !.stream.retry_count = @ + 1]
    /\ UNCHANGED <<tree, repo_path, buildVars, apiVars>>

NextStream ==
    \/ StreamOpen
    \/ EmitProgress
    \/ StartAnalysis
    \/ StreamPoll
    \/ StreamSend
    \/ StreamSleep

InitStream ==
    /\ tree = {}
    /\ repo_path = RepoPath
    /\ sse = NoStream
    /\ InitBuilder
    /\ disk = NoDisk
    /\ persisted = NothingPersisted
    /\ InitApi

SpecStream == InitStream /\ [][NextStream]_vars

(***************************************************************************)
\* the files the scanner discovered and _parse_file could read
ReadFiles == {FileAt(all_files[i]) : i \in {j \in 1..Len(all_files) : FileAt(all_files[j]).readable}}

\* C1: in every state of a build, both endpoints of every edge of the graph
\* are nodes of the graph that a node-add put there (they carry the
\* attributes of a node-add; add_edge never had to make up an endpoint).
C1_EdgeEndpointsAreNodes ==
    graph # NoGraph =>
        \A e \in EdgeSet(graph) :
            /\ e[1] \in NodeSet(graph) /\ graph.attrs[e[1]] # NoAttrs
            /\ e[2] \in NodeSet(graph) /\ graph.attrs[e[2]] # NoAttrs

\* C1 witness: a finished build with edges in which an import of a file that
\* was read resolved to a file that has no node (it could not be read), so
\* that the guard dropped the edge
C1_Witness ==
    /\ pc = "done"
    /\ EdgeSet(graph) # {}
    /\ \E f \in ReadFiles : \E k \in 1..Len(ImportOccurrences(f)) :
         LET to == ResolveImport(ImportOccurrences(f)[k], file_map)
         IN  to # NoneStr /\ to # f.path /\ ~HasNode(graph, ToPosix(to))

\* C2: after build, every discovered file (one the scanner yields and the
\* extractor can read) has a node named by its path whose category is "file"
\* and whose line range is [1, number of lines of the file].
C2_EveryFileHasItsFileNode ==
    pc = "done" =>
        \A f \in ReadFiles :
            /\ HasNode(graph, ToPosix(f.path))
            /\ graph.attrs[ToPosix(f.path)].category = "file"
            /\ graph.attrs[ToPosix(f.path)].line = <<1, Len(f.lines)>>

\* C3: the tree {a.py: class Foo with method bar, b.py: from a import Foo}
\* builds to exactly the nodes a.py, Foo, Foo.bar, b.py and exactly the edges
\* a.py->Foo, Foo->Foo.bar (containment) and b.py->a.py (import), in either
\* scan order.
C3_TwoFileScenario ==
    (tree = {FileA, FileB} /\ pc = "done") =>
        /\ NodeSet(graph) = {a_py, Foo, Foo_bar, b_py}
        /\ EdgeSet(graph) = {<<a_py, Foo>>, <<Foo, Foo_bar>>, <<b_py, a_py>>}

\* C3 witness: the scenario built with b.py scanned first
C3_Witness ==
    /\ tree = {FileA, FileB}
    /\ pc = "done"
    /\ all_files = <<b_py, a_py>>
    /\ Len(nodes) = 4

\* C9: a build of the same tree that follows another build ends with the
\* same node names and the same edges, whatever the two scan orders were.
C9_RebuildSameSets ==
    (pc = "done" /\ runs >= 2) =>
        /\ NodeSet(graph) = prev.names
        /\ EdgeSet(graph) = prev.edges

\* the first phase of build is over: every discovered file went through
\* _parse_file, each file that could be read has its file record, and each of
\* its definitions has its record and the edge from its parent
Phase1Complete ==
    /\ fileIdx > Len(all_files)
    /\ pending = <<>>
    /\ \A f \in ReadFiles :
         /\ FileCodeNode(f) \in Range(nodes)
         /\ HasNode(graph, ToPosix(f.path))
         /\ \A c \in Range(DefinitionCalls(f)) :
              /\ AddNodeRecord(c) \in Range(nodes)
              /\ <<c.parent, c.name>> \in EdgeSet(graph)

\* the file index holds the four keys of every discovered file
FileIndexComplete ==
    \A i \in 1..Len(all_files) :
        {all_files[i], WithoutSuffix(all_files[i]), Stem(all_files[i]), ToPosix(all_files[i])}
            \subseteq {file_map[k][1] : k \in 1..Len(file_map)}

\* C10: in every build, an import-edge operation runs only when the first
\* phase is over for every discovered file and the file index is complete,
\* and from the first import-edge operation on no node-add (and so no
\* containment-edge-add, which only a node-add makes) happens in that build:
\* the record list and the node attributes stay what they were then.
C10_ImportsAfterAllFiles ==
    importStarted =>
        /\ Phase1Complete
        /\ FileIndexComplete
        /\ nodes = atImport.nodes
        /\ graph.attrs = atImport.attrs

\* C10 witness: a build of three readable files that resolved an import
C10_Witness ==
    /\ pc = "done"
    /\ importStarted
    /\ Cardinality(ReadFiles) = 3
    /\ Len(nodes) > 3

(***************************************************************************)
(* Properties of the query layer.                                          *)
(***************************************************************************)
\* the positions of the records with a name, and of its definitions
RecordsNamed(tags, name) == {i \in 1..Len(tags) : tags[i].name = name}
DefsNamed(tags, name) == {i \in RecordsNamed(tags, name) : tags[i].kind = "def"}
MaxOf(S) == CHOOSE x \in S : \A y \in S : y <= x
MinOf(S) == CHOOSE x \in S : \A y \in S : x <= y

\* the record the name-index rule designates for a name
DesignatedRecord(tags, name) ==
    IF DefsNamed(tags, name) # {} THEN TagToNodeInfo(tags[MaxOf(DefsNamed(tags, name))])
    ELSE IF RecordsNamed(tags, name) # {}
    THEN TagToNodeInfo(tags[MinOf(RecordsNamed(tags, name))])
    ELSE NoInfo

\* C4: get_node(name) answers with the last record of kind "def" of that
\* name if the loaded record list has one, otherwise with the first record of
\* that name, and with nothing when no record has the name; and wherever a
\* "ref" record follows records among which its name already occurs, the
\* index after it is the index before it.
C4_NameIndexRule ==
    /\ qres.op = "get_node" => qres.out = DesignatedRecord(api_tags, qres.name)
    /\ \A k \in 1..Len(api_tags) :
         (api_tags[k].kind = "ref"
            /\ api_tags[k].name \in DOMAIN BuildNodeIndex(SubSeq(api_tags, 1, k - 1)))
         => BuildNodeIndex(SubSeq(api_tags, 1, k))
              = BuildNodeIndex(SubSeq(api_tags, 1, k - 1))

\* C4 witness: a lookup of a name whose records are a definition, a
\* reference, a definition, in this order; the answer is the third
C4_Witness ==
    /\ qres.op = "get_node"
    /\ Len(api_tags) = 3
    /\ \A i \in 1..3 : api_tags[i].name = qres.name
    /\ api_tags[1].kind = "def" /\ api_tags[2].kind = "ref" /\ api_tags[3].kind = "def"
    /\ qres.out # NoInfo
    /\ qres.out.line = <<3, 3>>

\* the nodes at the end of a directed path of 1 to k edges from a node of S
RECURSIVE WithinHops(_, _, _)
WithinHops(g, S, k) ==
    IF k = 0 THEN {}
    ELSE LET step == {e[2] : e \in {d \in EdgeSet(g) : d[1] \in S}}
         IN  step \cup WithinHops(g, step, k - 1)

\* C5: for a start node of the loaded graph and a depth above 1,
\* get_neighbors answers with a list without duplicates of exactly the nodes
\* other than the start that a directed path of 1 to depth edges reaches from
\* the start.
C5_MultiHopIsReachability ==
    (qres.op = "get_neighbors" /\ qres.err = "" /\ qres.depth > 1
        /\ HasNode(api_graph, qres.name))
    => /\ Range(qres.out) = WithinHops(api_graph, {qres.name}, qres.depth) \ {qres.name}
       /\ \A i, j \in 1..Len(qres.out) : qres.out[i] = qres.out[j] => i = j

\* C5 witness: a depth-2 answer that holds a node one edge away and a node
\* two edges away but not one edge away, while a node three edges away is
\* left out
C5_Witness ==
    /\ qres.op = "get_neighbors" /\ qres.err = "" /\ qres.depth = 2
    /\ HasNode(api_graph, qres.name)
    /\ \E n \in Range(qres.out) : n \in WithinHops(api_graph, {qres.name}, 1)
    /\ \E n \in Range(qres.out) : n \notin WithinHops(api_graph, {qres.name}, 1)
    /\ \E n \in WithinHops(api_graph, {qres.name}, 3) \ {qres.name} : n \notin Range(qres.out)

\* the ids of the node list of an export, and the links over a pair of ids
ExportedIds(out) == {out.nodes[i].id : i \in 1..Len(out.nodes)}
LinksOver(out, a, b) ==
    {i \in 1..Len(out.links) : {out.links[i].source, out.links[i].target} = {a, b}}

\* C6: in an export, no two links have the same unordered pair of endpoints,
\* and for every two exported nodes a, b with an edge a->b or b->a in the
\* loaded graph exactly one link joins them.
C6_OneLinkPerPair ==
    (qres.op = "to_vis_format" /\ qres.err = "")
    => /\ \A i, j \in 1..Len(qres.out.links) :
            {qres.out.links[i].source, qres.out.links[i].target}
              = {qres.out.links[j].source, qres.out.links[j].target} => i = j
       /\ \A a, b \in ExportedIds(qres.out) :
            (<<a, b>> \in EdgeSet(api_graph) \/ <<b, a>> \in EdgeSet(api_graph))
            => Cardinality(LinksOver(qres.out, a, b)) = 1

\* C6 witness: an export of a graph with edges in both directions between two
\* different exported nodes
C6_Witness ==
    /\ qres.op = "to_vis_format" /\ qres.err = ""
    /\ \E a, b \in ExportedIds(qres.out) :
         /\ a # b
         /\ <<a, b>> \in EdgeSet(api_graph) /\ <<b, a>> \in EdgeSet(api_graph)
         /\ Cardinality(LinksOver(qres.out, a, b)) = 1

\* the graph nodes of category "file"
FileNodes(g) == {n \in NodeSet(g) : g.attrs[n].category = "file"}

\* C7: every link of an export is an edge of the loaded graph, in that
\* direction, between two ids of the export's node list; in files-only mode
\* the node list holds each graph node of category "file" once and nothing
\* else, so that every link joins two file nodes.
C7_LinksAreEdgesBetweenExported ==
    (qres.op = "to_vis_format" /\ qres.err = "")
    => /\ \A i \in 1..Len(qres.out.links) :
            /\ <<qres.out.links[i].source, qres.out.links[i].target>> \in EdgeSet(api_graph)
            /\ qres.out.links[i].source \in ExportedIds(qres.out)
            /\ qres.out.links[i].target \in ExportedIds(qres.out)
       /\ qres.files_only =>
            /\ ExportedIds(qres.out) = FileNodes(api_graph)
            /\ Len(qres.out.nodes) = Cardinality(FileNodes(api_graph))
            /\ \A i \in 1..Len(qres.out.links) :
                 /\ qres.out.links[i].source \in FileNodes(api_graph)
                 /\ qres.out.links[i].target \in FileNodes(api_graph)

\* C7 witness: a files-only export that keeps an edge between two file nodes
\* and drops an edge from a file node to a node that is not a file
C7_Witness ==
    /\ qres.op = "to_vis_format" /\ qres.err = "" /\ qres.files_only
    /\ Len(qres.out.links) > 0
    /\ \E e \in EdgeSet(api_graph) :
         e[1] \in FileNodes(api_graph) /\ e[2] \notin FileNodes(api_graph)

\* whether a name matches a query, as search is specified
NameMatches(name, query, exact) ==
    IF exact THEN name = query
    ELSE \E i \in 0..(Len(name) - Len(query)) :
            \A j \in 1..Len(query) : LowerChar(name[i + j]) = LowerChar(query[j])

\* the records, in order and each as often as it occurs, whose name matches
MatchingRecords(tags, query, exact) ==
    LET hits == SelectSeq(tags, LAMBDA tag : NameMatches(tag.name, query, exact))
    IN  [i \in 1..Len(hits) |-> TagToNodeInfo(hits[i])]

\* C8: search(query, exact) answers with the records of the loaded list, in
\* the order of the list and each as often as it occurs, whose name is the
\* query (exact) or whose lower-cased name contains the lower-cased query
\* (not exact).
C8_SearchIsFilteredRecordList ==
    qres.op = "search" => qres.out = MatchingRecords(api_tags, qres.query, qres.exact)

\* C8 witness: a search that is not exact, for a query that differs in case
\* from a name it finds twice, on a list with a record it leaves out
C8_Witness ==
    /\ qres.op = "search" /\ ~qres.exact
    /\ Len(qres.out) = 2
    /\ qres.out[1].name = qres.out[2].name
    /\ qres.out[1].name # qres.query
    /\ Len(qres.out[1].name) = Len(qres.query)
    /\ Len(api_tags) = 3

(***************************************************************************)
(* Properties of import resolution.                                        *)
(***************************************************************************)
\* the edges the last _add_import_edge call added to the graph
ImportAdded ==
    IF lastImport = NoImport THEN {}
    ELSE EdgeSet(graph) \ EdgeSet(lastImport.graph)

\* C11: every edge import resolution adds joins two different nodes that were
\* both in the graph before the edge was added and are both of category
\* "file".
C11_ImportEdgesJoinFileNodes ==
    \A e \in ImportAdded :
        /\ e[1] # e[2]
        /\ HasNode(lastImport.graph, e[1]) /\ HasNode(lastImport.graph, e[2])
        /\ lastImport.graph.attrs[e[1]].category = "file"
        /\ lastImport.graph.attrs[e[2]].category = "file"

\* the candidates made of a target t, in the order they are tried
CandidatesOf(t) ==
    <<t, ReplaceChar(t, ".", "/"), LastSegment(t, "."), LastSegment(t, "/")>>

\* the positions of the index entries whose key contains or ends with c
EntriesMatching(c) ==
    {k \in 1..Len(file_map) : Contains(c, file_map[k][1]) \/ EndsWith(file_map[k][1], c)}

\* the file an occurrence with target t resolves to: the file of the first
\* index entry that matches the earliest candidate matching any entry
\* (NoneStr when no candidate matches)
ResolvedTarget(t) ==
    LET cands == CandidatesOf(t)
        hits == {i \in 1..4 : EntriesMatching(cands[i]) # {}}
    IN  IF hits = {} THEN NoneStr
        ELSE file_map[MinOf(EntriesMatching(cands[MinOf(hits)]))][2]

\* what one occurrence adds when its target, as the candidates are made of
\* it, is t: nothing, or the one edge from the importer to the file t resolves
\* to (when that file is another file, both have a node and the edge is new)
OccurrenceAdds(t) ==
    LET to == ResolvedTarget(t)
        e == <<lastImport.from_file, ToPosix(to)>>
    IN  IF /\ to # NoneStr
           /\ e[1] # e[2]
           /\ HasNode(lastImport.graph, e[1]) /\ HasNode(lastImport.graph, e[2])
           /\ e \notin EdgeSet(lastImport.graph)
        THEN {e} ELSE {}

\* C12 as stated: the candidates are made of the raw target, as the import
\* pattern captured it.
C12_CandidatesOfRawTarget ==
    lastImport # NoImport => ImportAdded = OccurrenceAdds(lastImport.import_path)

\* C12, amended: the candidates are made of the captured target once its
\* leading and trailing "." and "/" are stripped (and "\" replaced by "/"),
\* in the order: that target, that target with "." replaced by "/", its last
\* "."-delimited segment, its last "/"-delimited segment; the occurrence
\* resolves to the file of the first index entry, in index order, whose key
\* contains or ends with the earliest candidate that matches any key, and
\* adds at most one edge, from the importer to that file.
C12_CandidatesOfStrippedTarget ==
    lastImport # NoImport =>
        /\ Cardinality(ImportAdded) <= 1
        /\ ImportAdded
             = OccurrenceAdds(ReplaceChar(Strip(lastImport.import_path, {".", "/"}), "\\", "/"))

\* C12 witness: "import s.a" in e.py, with ba.py indexed before s/a.py: the
\* first candidate "s.a" matches no key, the second, "s/a", matches keys of
\* s/a.py only, while the later candidate "a" would match ba.py first; the
\* edge e.py -> s/a.py is added
C12_Witness ==
    /\ lastImport # NoImport
    /\ lastImport.import_path = <<"s", ".", "a">>
    /\ EntriesMatching(<<"s", ".", "a">>) = {}
    /\ ResolvedTarget(<<"a">>) = ba_py
    /\ ImportAdded = {<<e_py, s_a_py>>}

(***************************************************************************)
(* Properties of saving and loading.                                       *)
(***************************************************************************)
\* C13: after a load of what a save wrote, the loaded graph has the nodes,
\* the node attributes and the edges of the saved graph, and the loaded
\* record list has, position by position, the fields of the builder's
\* records (absolute file, relative file, line range, name, kind, category,
\* language, info), one record per node-add of the build.
C13_SaveLoadRoundTrip ==
    persisted.loaded # NoSaved =>
        LET was == persisted.loaded
        IN  /\ NodeSet(api_graph) = NodeSet(was.graph)
            /\ api_graph.attrs = was.graph.attrs
            /\ EdgeSet(api_graph) = EdgeSet(was.graph)
            /\ Len(api_tags) = Len(was.nodes)
            /\ Len(api_tags) = was.adds
            /\ \A i \in 1..Len(api_tags) :
                 /\ api_tags[i].fname = was.nodes[i].file
                 /\ api_tags[i].rel_fname = was.nodes[i].rel_file
                 /\ api_tags[i].line = <<was.nodes[i].start_line, was.nodes[i].end_line>>
                 /\ api_tags[i].name = was.nodes[i].name
                 /\ api_tags[i].kind = was.nodes[i].kind
                 /\ api_tags[i].category = was.nodes[i].category
                 /\ api_tags[i].language = was.nodes[i].language
                 /\ api_tags[i].info = was.nodes[i].info

\* C13 witness: a load of the save of a second build, over artifacts of the
\* first, of a graph with an edge and of a record whose relative file has a
\* backslash, which the JSON text escapes
C13_Witness ==
    /\ persisted.loaded # NoSaved
    /\ runs = 2
    /\ persisted.loaded.graph = graph
    /\ EdgeSet(api_graph) # {}
    /\ \E i \in 1..Len(api_tags) :
         /\ api_tags[i].rel_fname = q_a_py
         /\ disk.tags[i].rel_fname # q_a_py

\* C14: a load on an output directory without graph.pkl ends with the
\* not-found error and leaves the instance as it was made: no graph, an empty
\* record list and an empty name index, whether or not tags.json is there.
C14_LoadWithoutGraphFails ==
    ~disk.has_graph =>
        /\ qres.op = "load" => qres.err = "FileNotFoundError"
        /\ api_graph = NoGraph
        /\ api_tags = <<>>
        /\ api_index = <<>>

\* C14 witness: two failed loads on a directory that holds tags.json with
\* records but no graph.pkl
C14_Witness ==
    /\ ~disk.has_graph
    /\ disk.has_tags /\ Len(disk.tags) > 0
    /\ qres.op = "load" /\ qres.err = "FileNotFoundError"
    /\ ncalls = 2

\* the callers of build that go on to save
EntryPoints == {"analyze", "analyze_local", "build_graph"}

\* C15: whichever caller ran the build, when no source file was discovered
\* the caller is told "no source files found" and nothing is written; when
\* files were discovered but none has a definition, the caller is told of no
\* error and the graph holds the file nodes and nothing else.
C15_NoSourceFilesIsAFailure ==
    (pc = "done" /\ outcome.entry \in EntryPoints) =>
        /\ all_files = <<>> =>
             /\ outcome.err = "No supported source files found"
             /\ ~outcome.saved
        /\ (all_files # <<>> /\ \A f \in ReadFiles : DefinitionCalls(f) = <<>>) =>
             /\ outcome.err = ""
             /\ NodeSet(graph) = {ToPosix(f.path) : f \in ReadFiles}
             /\ \A n \in NodeSet(graph) : graph.attrs[n].category = "file"

\* C16: the node list of a returned full export has one entry per name that
\* some record of kind 'def' carries, made from the first such record, the
\* entries in the order of those first records; its edge list has each edge
\* of the loaded graph at exactly one position and nothing else.
C16_ExportListsFirstDefinitionsAndAllEdges ==
    (qres.op = "to_json" /\ qres.err = "") =>
        LET out == qres.out
            first(name) == MinOf(DefsNamed(api_tags, name))
        IN  /\ \A i, j \in 1..Len(out.nodes) :
                  i < j => /\ out.nodes[i].name # out.nodes[j].name
                           /\ first(out.nodes[i].name) < first(out.nodes[j].name)
            /\ {out.nodes[i].name : i \in 1..Len(out.nodes)}
                 = {api_tags[i].name : i \in {k \in 1..Len(api_tags) : api_tags[k].kind = "def"}}
            /\ \A i \in 1..Len(out.nodes) :
                  out.nodes[i] = TagToNodeInfo(api_tags[first(out.nodes[i].name)])
            /\ \A e \in EdgeSet(api_graph) :
                  Cardinality({k \in 1..Len(out.edges) :
                                  out.edges[k] = [source |-> e[1], target |-> e[2]]}) = 1
            /\ \A k \in 1..Len(out.edges) :
                  <<out.edges[k].source, out.edges[k].target>> \in EdgeSet(api_graph)

\* an export of a graph with edges, from records where a name is defined
\* twice with a reference between and the second definition differs
C16_Witness ==
    /\ qres.op = "to_json" /\ qres.err = ""
    /\ Len(qres.out.edges) >= 3
    /\ Len(api_tags) = 3
    /\ api_tags[1].kind = "def" /\ api_tags[2].kind = "ref" /\ api_tags[3].kind = "def"
    /\ api_tags[1].name = api_tags[3].name
    /\ api_tags[1] # api_tags[3]
    /\ Len(qres.out.nodes) = 1

\* the attributes load gives the instance, from the output directory
AsLoaded ==
    [graph |-> disk.graph,
     tags |-> ReadTags(disk.tags),
     index |-> BuildNodeIndex(ReadTags(disk.tags))]

\* C17: once load has succeeded, however the queries of concurrent callers
\* interleave, the graph, the record list and the name index stay what load
\* made them, and every query gives back what it gives when run alone on the
\* instance as loaded.
C17_QueriesLeaveTheInstanceAlone ==
    (qres.op = "load" /\ qres.err = "") =>
        /\ api_graph = AsLoaded.graph
        /\ api_tags = AsLoaded.tags
        /\ api_index = AsLoaded.index
        /\ \A r \in Readers :
              readers[r].pc = "returned" =>
                  readers[r].res \in QueryOuts(readers[r].call, AsLoaded.graph,
                                               AsLoaded.tags, AsLoaded.index)

\* two calls that overlapped have both returned: a full export and a
\* two-or-more-hop neighbourhood, both non-empty
C17_Witness ==
    /\ readers[1].pc = "returned" /\ readers[2].pc = "returned"
    /\ readers[1].overlap /\ readers[2].overlap
    /\ readers[1].call.op = "to_json" /\ readers[1].res.err = ""
    /\ Len(readers[1].res.out.nodes) > 0
    /\ readers[2].call.op = "get_neighbors" /\ readers[2].call.depth > 1
    /\ Len(readers[2].res.out) > 1

\* the node of the lexical parent of the definition at line i of file f: the
\* class whose body holds the line, or else the file
LexicalParent(f, i) ==
    LET p == f.lines[i].parent
    IN  IF p # 0 /\ f.lines[p].kind = "class" THEN f.lines[p].name ELSE ToPosix(f.path)

\* C18: when build has returned, every definition that was extracted from a
\* file and whose node is not a file node has an edge to its node from its
\* lexical parent: the class whose body holds it, or else the file's node.
C18_EdgeFromLexicalParent ==
    pc = "done" =>
        \A f \in ReadFiles :
            \A k \in 1..Len(DefinitionCalls(f)) :
                LET c == DefinitionCalls(f)[k]
                IN  graph.attrs[c.name].category # "file" =>
                        <<LexicalParent(f, c.start_line), c.name>> \in EdgeSet(graph)

\* the read files that ast.parse accepts
AstFiles == {f \in ReadFiles : GetLanguage(f.path) = "python" /\ ~SyntaxError(f.lines)}

\* the records that _add_node appended for line i of file f
RecordsAt(f, i, category) ==
    {k \in 1..Len(nodes) : /\ nodes[k].rel_file = f.path
                           /\ nodes[k].start_line = i
                           /\ nodes[k].category = category}

\* the statement at line i is inside some class of the file, at any depth
ClassDescendant(lines, i) ==
    \E a \in 1..Len(lines) : a # i /\ lines[a].kind = "class" /\ Encloses(lines, a, i)

\* C19: in a file that parses, a function definition has a record (a node)
\* of category 'function' exactly when no class definition of the file
\* encloses it at any depth; a function inside a method has none.
C19_FunctionNodeIffOutsideEveryClass ==
    pc = "done" =>
        \A f \in AstFiles :
            \A i \in 1..Len(f.lines) :
                f.lines[i].kind \in {"def", "asyncdef"} =>
                    ((\E k \in RecordsAt(f, i, "function") : nodes[k].name = f.lines[i].name)
                        <=> ~ClassDescendant(f.lines, i))

\* the functions directly in the body of the class at line c, sync or async
MemberFunctions(lines, c) ==
    SelectSeq([j \in 1..Len(lines) |-> j],
              LAMBDA j : lines[j].parent = c /\ lines[j].kind \in {"def", "asyncdef"})

\* C20: in a file that parses, every class definition has one class record,
\* and for each function directly in its body, sync or async, one method
\* record named Class.member and the edge Class -> Class.member; the info of
\* the class record is the list of the names of those same functions.
C20_ClassYieldsMethodsAndInfo ==
    pc = "done" =>
        \A f \in AstFiles :
            \A c \in 1..Len(f.lines) :
                f.lines[c].kind = "class" =>
                    LET members == MemberFunctions(f.lines, c)
                        cname == f.lines[c].name
                    IN  /\ Cardinality(RecordsAt(f, c, "class")) = 1
                        /\ \A k \in RecordsAt(f, c, "class") :
                              /\ nodes[k].name = cname
                              /\ nodes[k].info =
                                   Join(<<",", " ">>,
                                        [m \in 1..Len(members) |-> f.lines[members[m]].name])
                        /\ \A m \in 1..Len(members) :
                              /\ Cardinality(RecordsAt(f, members[m], "method")) = 1
                              /\ \A k \in RecordsAt(f, members[m], "method") :
                                    nodes[k].name = cname \o <<".">> \o f.lines[members[m]].name
                              /\ <<cname, cname \o <<".">> \o f.lines[members[m]].name>>
                                    \in EdgeSet(graph)

\* the records of the record list that come from file f, in order
RecordsOf(f) == SelectSeq(nodes, LAMBDA r : r.rel_file = f.path)

\* the lines of a Python file that the line patterns take for definitions
PatternLines(lines) ==
    SelectSeq([j \in 1..Len(lines) |-> j],
              LAMBDA j : lines[j].kind \in {"class", "def", "asyncdef"})

\* what the line-oriented path records for line i of the Python file f
PatternRecord(f, i) ==
    CodeNode(f.lines[i].name, "def",
             IF f.lines[i].kind = "class" THEN "class" ELSE "function",
             AbsPath(f.path), f.path, i, i, "python", <<>>)

\* C21: when build has returned, a Python file that does not parse has its
\* file node and its file record, followed by one record per line that a
\* line pattern matches (a class or a function on that single line), and
\* every file that parses has the records the syntax tree gives, whether or
\* not the tree holds a file that does not parse.
C21_SyntaxErrorFallsBackToPatterns ==
    pc = "done" =>
        \A f \in ReadFiles :
            GetLanguage(f.path) = "python" =>
                IF SyntaxError(f.lines)
                THEN /\ HasNode(graph, ToPosix(f.path))
                     /\ graph.attrs[ToPosix(f.path)].category = "file"
                     /\ RecordsOf(f) =
                          <<FileCodeNode(f)>>
                          \o [k \in 1..Len(PatternLines(f.lines)) |->
                                 PatternRecord(f, PatternLines(f.lines)[k])]
                ELSE RecordsOf(f) =
                          <<FileCodeNode(f)>>
                          \o [k \in 1..Len(WalkCalls(f.lines, AstWalk(f.lines), f.path,
                                                     ToPosix(f.path))) |->
                                 AddNodeRecord(WalkCalls(f.lines, AstWalk(f.lines), f.path,
                                                         ToPosix(f.path))[k])]

\* a build has returned over e.py, which does not parse, scanned before
\* a.py: e.py gave the function bar from its line 3 and a.py its method
C21_Witness ==
    /\ pc = "done"
    /\ Len(all_files) = 2
    /\ all_files[1] = e_py /\ all_files[2] = a_py
    /\ \E k \in 1..Len(nodes) :
          /\ nodes[k].rel_file = e_py /\ nodes[k].name = bar
          /\ nodes[k].category = "function" /\ nodes[k].start_line = 3
    /\ \E k \in 1..Len(nodes) :
          nodes[k].rel_file = a_py /\ nodes[k].name = Foo_bar

\* what a node-add of a name the graph already holds does in one step
AddOfExisting(name, attrs) ==
    HasNode(graph, name) =>
        /\ graph'.order = graph.order
        /\ NodeSet(graph') = NodeSet(graph)
        /\ graph'.attrs[name] = attrs
        /\ EdgeSet(graph) \subseteq EdgeSet(graph')
        /\ Len(nodes') = Len(nodes) + 1

\* C22: a node-add (of a definition or of a file node) whose name is already
\* a node of the graph completes, leaves the nodes and their number as they
\* were, gives the node the attributes of this add and keeps every edge the
\* graph had.
C22_AddOfExistingNameOverwrites ==
    [][/\ AddNode =>
            AddOfExisting(Head(pending).name,
                          [category |-> Head(pending).category, kind |-> "def",
                           file |-> Head(pending).rel_path,
                           language |-> Head(pending).language,
                           line |-> <<Head(pending).start_line, Head(pending).end_line>>,
                           info |-> Head(pending).info])
       /\ (ParseFile /\ FileAt(all_files[fileIdx]).readable) =>
            AddOfExisting(ToPosix(all_files[fileIdx]), FileAttrs(FileAt(all_files[fileIdx])))
      ]_vars

\* class Foo was added from a.py and again from e.py: one node Foo, with the
\* attributes of the add from e.py and with the edges it had before
C22_Witness ==
    /\ pc = "done"
    /\ HasNode(graph, Foo)
    /\ graph.attrs[Foo].file = e_py /\ graph.attrs[Foo].line = <<2, 2>>
    /\ {<<a_py, Foo>>, <<Foo, Foo_bar>>, <<e_py, Foo>>} \subseteq EdgeSet(graph)
    /\ Cardinality({k \in 1..Len(nodes) : nodes[k].name = Foo}) = 2
    /\ Len(graph.order) = Cardinality(NodeSet(graph))
    /\ Len(nodes) = Len(graph.order) + 1

\* the directory segments of a path relative to the root
DirSegments(path) ==
    LET segs == Split(path, "/")
    IN  {segs[i] : i \in 1..(Len(segs) - 1)}

\* C23: once the tree has been scanned, a file of the tree is among the
\* scanned files exactly when its lower-cased extension is in the language
\* table and none of its directories below the root has an excluded name,
\* whatever the root is called.
C23_ScannerRule ==
    pc # "idle" =>
        \A f \in tree :
            (\E i \in 1..Len(all_files) : all_files[i] = f.path)
                <=> /\ Lower(Suffix(f.path)) \in DOMAIN LANGUAGE_EXTENSIONS
                    /\ DirSegments(f.path) \cap SkipDirs = {}

\* no candidate made of the target t (stripped as the resolver strips it)
\* matches a key of the file index
NothingMatches(t) ==
    LET cands == CandidatesOf(ReplaceChar(Strip(t, {".", "/"}), "\\", "/"))
    IN  \A i \in 1..4 : EntriesMatching(cands[i]) = {}

\* C24: one resolution of an import occurrence completes, leaves the nodes of
\* the graph, their order and their attributes and the record list as they
\* were, and leaves the edges as they were too when no candidate matches any
\* key of the file index.
C24_ResolutionTouchesEdgesOnly ==
    [][ImportEdge =>
          /\ impPending' = Tail(impPending)
          /\ nodes' = nodes
          /\ graph'.order = graph.order
          /\ graph'.attrs = graph.attrs
          /\ EdgeSet(graph) \subseteq EdgeSet(graph')
          /\ NothingMatches(Head(impPending)) => EdgeSet(graph') = EdgeSet(graph)
      ]_vars

\* the last occurrence resolved, "from a" in b.py, matched no key of an index
\* that holds other files, and the graph, which has edges, is as it was
C24_Witness ==
    /\ lastImport # NoImport
    /\ lastImport.from_file = b_py /\ lastImport.import_path = <<"a">>
    /\ NothingMatches(lastImport.import_path)
    /\ Len(all_files) >= 2
    /\ graph = lastImport.graph /\ nodes = lastImport.nodes
    /\ EdgeSet(graph) # {}

\* the events of a sequence up to and with its first terminal event
UpToTerminal(events) ==
    LET ends == {i \in 1..Len(events) : Terminal(events[i])}
    IN  IF ends = {} THEN events ELSE Take(events, MinOf(ends))

\* C25: what an open stream has delivered is, at every moment, the events
\* of the repository (those its list held when the stream was opened and
\* those emitted since), each once and in the order of emission, up to the
\* first terminal event: a beginning of that sequence, and all of it once the
\* stream has ended.
C25_StreamDeliversEmittedInOrder ==
    LET due == UpToTerminal(sse.emitted)
        out == sse.stream.out
    IN  /\ Len(out) <= Len(due)
        /\ \A i \in 1..Len(out) : out[i] = due[i]
        /\ sse.stream.pc = "ended" => out = due

\* the names that appear in the builder's record list
RecordNames == {nodes[k].name : k \in 1..Len(nodes)}

\* C26: from the start of a build on, the names of the record list are the
\* nodes of the graph, and the records are at least as many as the nodes.
C26_RecordNamesAreTheNodes ==
    pc # "idle" =>
        /\ RecordNames = NodeSet(graph)
        /\ Len(nodes) >= Cardinality(NodeSet(graph))

\* a build has returned with two records of one name, after an import
\* occurrence resolved to a file that was skipped as unreadable
C26_Witness ==
    /\ pc = "done"
    /\ Len(nodes) > Cardinality(NodeSet(graph))
    /\ lastImport # NoImport
    /\ ResolvedTarget(ReplaceChar(Strip(lastImport.import_path, {".", "/"}), "\\", "/")) = ua_py
    /\ ua_py \notin NodeSet(graph)

(***************************************************************************)
(* Properties of the edges of a built graph.                               *)
(***************************************************************************)
\* the nodes that are among their own successors
SelfLoops(g) == {n \in NodeSet(g) : n \in Range(Successors(g, n))}

\* the names of the classes a file defines
ClassNamesOf(f) == {f.lines[i].name : i \in {j \in 1..Len(f.lines) : f.lines[j].kind = "class"}}

\* the source files of the tree, by the names of their file nodes
FileNodeNames == {ToPosix(all_files[i]) : i \in 1..Len(all_files)}

\* C27: a graph produced by build has no self-loop. Every edge a node-add
\* adds goes from the name of the file node of the file being parsed, or from
\* the name of a class of that file, to the different name being added; every
\* edge import resolution adds joins two different files; so no node of the
\* graph is among its own depth-1 neighbours (its successors).
C27_NoSelfLoop ==
    /\ [](graph # NoGraph => SelfLoops(graph) = {})
    /\ [][/\ AddNode =>
               LET c == Head(pending)
                   f == FileAt(all_files[fileIdx])
               IN  /\ EdgeSet(graph') \ EdgeSet(graph) \subseteq {<<c.parent, c.name>>}
                   /\ c.parent # c.name
                   /\ c.parent \in {ToPosix(f.path)} \cup ClassNamesOf(f)
          /\ ImportEdge =>
               \A e \in EdgeSet(graph') \ EdgeSet(graph) :
                   /\ e = <<impFrom, ToPosix(ResolveImport(Head(impPending), file_map))>>
                   /\ e[1] # e[2]
                   /\ {e[1], e[2]} \subseteq FileNodeNames
         ]_vars

\* a finished build with containment and import edges in which s/a.py was
\* indexed first, so that its "from . import x" resolved to s/a.py itself,
\* and in which no node is its own successor
C27_Witness ==
    /\ pc = "done"
    /\ all_files # <<>> /\ all_files[1] = s_a_py
    /\ ResolveImport(<<".">>, file_map) = s_a_py
    /\ \E e \in EdgeSet(graph) : graph.attrs[e[1]].category = "class"
    /\ \E e \in EdgeSet(graph) :
          graph.attrs[e[1]].category = "file" /\ graph.attrs[e[2]].category = "file"
    /\ \A n \in NodeSet(graph) : n \notin Range(Successors(graph, n))

\* the target of the last import occurrence as the candidates are made of it
LastTarget == ReplaceChar(Strip(lastImport.import_path, {".", "/"}), "\\", "/")

\* the files, other than the one the last occurrence resolved to, that some
\* candidate of that occurrence matches and that the guard would accept
OtherAcceptable ==
    {file_map[k][2] : k \in {j \in 1..Len(file_map) :
        /\ \E i \in 1..4 : j \in EntriesMatching(CandidatesOf(LastTarget)[i])
        /\ ToPosix(file_map[j][2]) # lastImport.from_file
        /\ HasNode(lastImport.graph, ToPosix(file_map[j][2]))}}

\* C28: when the first matching index entry of an import occurrence maps to
\* the importing file itself, or to a file that has no node in the graph, the
\* occurrence adds no edge, whatever other files a later entry or a later
\* candidate would match.
C28_BlockedFirstMatchEndsResolution ==
    lastImport # NoImport =>
        LET to == ResolvedTarget(LastTarget)
        IN  (/\ to # NoneStr
             /\ \/ ToPosix(to) = lastImport.from_file
                \/ ~HasNode(lastImport.graph, ToPosix(to)))
            => EdgeSet(graph) = EdgeSet(lastImport.graph)

\* "from . import x" in s/a.py, indexed first: the first matching entry is
\* s/a.py itself, another file with a node matches too, and the graph has the
\* edges it had before
C28_Witness ==
    /\ lastImport # NoImport
    /\ lastImport.from_file = s_a_py
    /\ ResolvedTarget(LastTarget) = s_a_py
    /\ HasNode(lastImport.graph, s_a_py)
    /\ OtherAcceptable # {}
    /\ ImportAdded = {}

\* C29: an import target that is empty once its leading and trailing "." and
\* "/" are stripped matches every key of a non-empty index; the occurrence
\* resolves to the file of the first index entry, and the edge from the
\* importer to that file is in the graph after the call whenever that file
\* is not the importer and has a node (otherwise the call adds nothing).
C29_EmptyTargetTakesFirstEntry ==
    (lastImport # NoImport /\ LastTarget = <<>> /\ file_map # <<>>) =>
        LET to == ToPosix(file_map[1][2])
        IN  /\ EntriesMatching(<<>>) = 1..Len(file_map)
            /\ ResolveImport(lastImport.import_path, file_map) = file_map[1][2]
            /\ IF to # lastImport.from_file /\ HasNode(lastImport.graph, to)
               THEN /\ <<lastImport.from_file, to>> \in EdgeSet(graph)
                    /\ ImportAdded \subseteq {<<lastImport.from_file, to>>}
               ELSE ImportAdded = {}

\* "from . import x" in s/a.py, with b.py indexed first: the edge
\* s/a.py -> b.py is added, although no key of b.py resembles the target
C29_Witness ==
    /\ lastImport # NoImport
    /\ lastImport.import_path = <<".">>
    /\ lastImport.from_file = s_a_py
    /\ file_map # <<>> /\ file_map[1][2] = b_py
    /\ ImportAdded = {<<s_a_py, b_py>>}

(***************************************************************************)
(* Properties of the index against the exports.                            *)
(***************************************************************************)
\* the entries of an exported node list that get_node's answer for their
\* name contradicts on category or on file
Disagreeing(out_nodes) ==
    {i \in 1..Len(out_nodes) :
        LET info == GetNodeOf(api_index, out_nodes[i].name)
        IN  \/ info = NoInfo
            \/ info.category # out_nodes[i].category
            \/ info.file # out_nodes[i].file}

\* C30: for every name of the loaded record list, get_node(name) and the
\* entry of that name in the JSON export, and in the visualization export
\* that is not files-only, have the same category and the same file, also
\* when several definition records share the name.
C30_GetNodeAgreesWithExports ==
    /\ (qres.op = "to_json" /\ qres.err = "") => Disagreeing(qres.out.nodes) = {}
    /\ (qres.op = "to_vis_format" /\ qres.err = "" /\ ~qres.files_only)
          => Disagreeing(qres.out.nodes) = {}

====
